---- MODULE Spec2Model ----
(***************************************************************************)
(* A model of the PEP8-parser program: the convergence controller          *)
(* (FileHandler.analyze / run_pycodestyle), the detectors of violations.py *)
(* and the correctors of corrective_actions.py, driven by main().          *)
(*                                                                         *)
(* Text is a sequence of one-character strings.  A document on disk is a   *)
(* flat text; read_from_file splits it into lines (terminators kept) and   *)
(* write_to_file concatenates the lines again.  Columns are 0-based as in   *)
(* Python; line numbers are 1-based.                                       *)
(***************************************************************************)
EXTENDS Integers, Sequences, FiniteSets, TLC

\* ------------------------------------------------------------------------
\* Python string and list primitives
\* ------------------------------------------------------------------------

TAB == "\t"
NL == "\n"
CR == "\r"
SP == " "
DQ == "\""
SQ == "'"

\* str.isspace() for one character
isspace(c) == c \in {SP, TAB, NL, CR, "\f"}

\* s[i] for a 0-based index i with 0 <= i < len(s)
At(s, i) == s[i + 1]

\* Python's s[i] also accepts -len(s) <= i < 0
InRange(s, i) == i < Len(s) /\ i >= 0 - Len(s)

PyAt(s, i) == IF i >= 0 THEN s[i + 1] ELSE s[Len(s) + i + 1]

Min(a, b) == IF a < b THEN a ELSE b

Max(a, b) == IF a > b THEN a ELSE b

\* s[a:b] for 0 <= a, with clamping as Python slices do
Slice(s, a, b) == SubSeq(s, Min(a, Len(s)) + 1, Min(b, Len(s)))

\* s[:b]
SliceTo(s, b) == Slice(s, 0, b)

\* s[a:]
SliceFrom(s, a) == Slice(s, a, Len(s))

\* sub in s
Contains(s, sub) ==
    \E i \in 1..(Len(s) - Len(sub) + 1) : SubSeq(s, i, i + Len(sub) - 1) = sub

\* s.count(c) for a single character c
Count(s, c) == Cardinality({i \in 1..Len(s) : s[i] = c})

\* the 0-based positions of s, ascending
Positions(s) == [i \in 1..Len(s) |-> i - 1]

MinOf(S) == CHOOSE x \in S : \A y \in S : x <= y

MaxOf(S) == CHOOSE x \in S : \A y \in S : y <= x

\* length of s once the trailing characters that belong to cs are dropped
RStripLen(s, cs) ==
    LET keep == {i \in 1..Len(s) : s[i] \notin cs} IN
    IF keep = {} THEN 0 ELSE MaxOf(keep)

\* s.rstrip(chars)
rstrip_chars(s, cs) == SubSeq(s, 1, RStripLen(s, cs))

Whitespace == {SP, TAB, NL, CR, "\f"}

\* s.rstrip()
rstrip(s) == rstrip_chars(s, Whitespace)

\* number of leading characters of s that belong to cs
LeadLen(s, cs) ==
    LET keep == {i \in 1..Len(s) : s[i] \notin cs} IN
    IF keep = {} THEN Len(s) ELSE MinOf(keep) - 1

\* s.lstrip()
lstrip(s) == SubSeq(s, LeadLen(s, Whitespace) + 1, Len(s))

\* s.strip()
strip(s) == rstrip(lstrip(s))

\* s.replace(" ", "")
RemoveSpaces(s) == SelectSeq(s, LAMBDA c : c # SP)

\* "".join(lines): what f.writelines(lines) puts in the file
RECURSIVE JoinLines(_)
JoinLines(lines) ==
    IF lines = <<>> THEN <<>> ELSE Head(lines) \o JoinLines(Tail(lines))

\* universal-newline translation of a text-mode read: "\r\n" and "\r" -> "\n"
TranslateNewlines(t) ==
    LET keep == SelectSeq(Positions(t),
                    LAMBDA i : ~(At(t, i) = NL /\ i > 0 /\ At(t, i - 1) = CR))
    IN [k \in 1..Len(keep) |->
           IF At(t, keep[k]) = CR THEN NL ELSE At(t, keep[k])]

\* f.readlines(): the lines of a text, each keeping its terminator; the last
\* line has none when the text does not end with one
SplitLines(t) ==
    LET ends == SelectSeq(Positions(t), LAMBDA i : At(t, i) = NL)
        full == [k \in 1..Len(ends) |->
                    Slice(t, IF k = 1 THEN 0 ELSE ends[k - 1] + 1, ends[k] + 1)]
        done == IF ends = <<>> THEN 0 ELSE ends[Len(ends)] + 1
    IN IF done < Len(t) THEN Append(full, SliceFrom(t, done)) ELSE full

readlines(text) == SplitLines(TranslateNewlines(text))

\* ------------------------------------------------------------------------
\* Results of detectors and correctors
\* ------------------------------------------------------------------------

\* one diagnostic (the "key" message text is not modelled)
Diag(ln, vt, col) ==
    [line_number |-> ln, violation_type |-> vt, column |-> col,
     for_function |-> <<>>, expected |-> 0, received |-> 0]

\* what a detector hands back: None, a list, something else, or an exception
NoneResult == [kind |-> "None", items |-> <<>>, exc |-> ""]

ListResult(v) == [kind |-> "list", items |-> v, exc |-> ""]

OtherResult == [kind |-> "other", items |-> <<>>, exc |-> ""]

Raised(e) == [kind |-> "raise", items |-> <<>>, exc |-> e]

\* "return violations if violations else None"
ListOrNone(v) == IF v = <<>> THEN NoneResult ELSE ListResult(v)

\* what a corrector did: the documents it handed to write_to_file, in order,
\* and the exception it raised, if any
Fixed(ws) == [writes |-> ws, exc |-> ""]

FixRaised(ws, e) == [writes |-> ws, exc |-> e]

\* the concatenation of a sequence of sequences
Concat(ss) == JoinLines(ss)

\* ------------------------------------------------------------------------
\* violations.py: the pattern table and the detectors
\* ------------------------------------------------------------------------

\* patterns[...]["violation_type"]
E101 == 101
E201 == 201
E202 == 202
E203 == 203
E211 == 211
E221 == 221
E222 == 222
E231 == 231
E291 == 291
E292 == 292
E293 == 293
E302 == 302
E400 == 400
E401 == 401

\* OPERATORS holds strings; a single character is "in OPERATORS" only when it
\* equals one of the one-character entries
OPERATORS == {"%", "^", "&", "|", "=", "/", "<", ">", "*", "+", "-"}

\* a triple-quote delimiter occurs in the line
HasTripleQuote(line) ==
    Contains(line, <<DQ, DQ, DQ>>) \/ Contains(line, <<SQ, SQ, SQ>>)

\* re.match("^\s*#", line)
IsCommentLine(line) ==
    LET k == LeadLen(line, Whitespace) IN
    k < Len(line) /\ line[k + 1] = "#"

\* the value of in_multiline_comment once lines 1..n have been visited
RECURSIVE in_multiline_comment(_, _)
in_multiline_comment(file_content, n) ==
    IF n = 0 THEN FALSE
    ELSE IF HasTripleQuote(file_content[n])
         THEN ~in_multiline_comment(file_content, n - 1)
         ELSE in_multiline_comment(file_content, n - 1)

\* the ascending 0-based indices, from i on, of the characters of line that are in cs
IndicesOf(line, cs, i) ==
    SelectSeq(Positions(line), LAMBDA j : j >= i /\ At(line, j) \in cs)

tabs_line(file_content, n) ==
    LET line == file_content[n] IN
    IF HasTripleQuote(line) THEN <<>>
    ELSE IF in_multiline_comment(file_content, n - 1) THEN <<>>
    ELSE IF IsCommentLine(line) THEN <<>>
    ELSE LET tab_indices == IndicesOf(line, {TAB}, 0) IN
         [k \in 1..Len(tab_indices) |-> Diag(n, E101, tab_indices[k])]

tabs_check(file_content) ==
    ListOrNone(Concat([n \in 1..Len(file_content) |->
                          tabs_line(file_content, n)]))

\* the regular expression "[[({] | []}),;:]" matched at 0-based position p
ExtraneousAt(line, p) ==
    /\ p + 1 < Len(line)
    /\ \/ At(line, p) \in {"[", "(", "{"} /\ At(line, p + 1) = SP
       \/ At(line, p) = SP /\ At(line, p + 1) \in {"]", "}", ")", ",", ";", ":"}

\* pattern.finditer(line): the starts of the non-overlapping matches
RECURSIVE extraneous_matches(_, _)
extraneous_matches(line, p) ==
    IF p + 1 >= Len(line) THEN <<>>
    ELSE IF ExtraneousAt(line, p)
         THEN <<p>> \o extraneous_matches(line, p + 2)
         ELSE extraneous_matches(line, p + 1)

\* "while idx >= 0 and line[idx].isspace(): idx -= 1"
BackOverSpace(line, idx) ==
    LET stop == {j \in 0..idx : ~isspace(At(line, j))} IN
    IF stop = {} THEN 0 - 1 ELSE MaxOf(stop)

extraneous_match(line, n, p) ==
    LET first == At(line, p)
        second == At(line, p + 1)
        whitespace_char == IF first = SP THEN second ELSE first
        after == IF second = SP /\ first # SP
                    /\ whitespace_char \in {"(", "[", "{"}
                 THEN <<Diag(n, E201, p + 1)>> ELSE <<>>
        before == IF first = SP /\ second # SP /\ PyAt(line, p - 1) # ","
                  THEN LET idx == BackOverSpace(line, p) IN
                       (IF whitespace_char \in {"}", "]", ")"}
                        THEN <<Diag(n, E202, idx + 1)>> ELSE <<>>)
                       \o
                       (IF whitespace_char \in {",", ";", ":"}
                        THEN <<Diag(n, E203, idx + 1)>> ELSE <<>>)
                  ELSE <<>>
    IN after \o before

extraneous_line(line, n) ==
    LET ms == extraneous_matches(line, 0) IN
    Concat([k \in 1..Len(ms) |-> extraneous_match(line, n, ms[k])])

extraneous_whitespace_check(file_content) ==
    ListOrNone(Concat([n \in 1..Len(file_content) |->
                          extraneous_line(file_content[n], n)]))

missing_whitespace_at(line, n, index) ==
    LET character == At(line, index) IN
    IF character \in {",", ";", ":"} /\ At(line, index + 1) \notin {SP, TAB}
    THEN LET line_before == SliceTo(line, index) IN
         IF character = ":" /\ Count(line_before, "[") > Count(line_before, "]")
         THEN <<>>
         ELSE IF character = "," /\ At(line, index + 1) = ")"
         THEN <<>>
         ELSE <<Diag(n, E231, index)>>
    ELSE <<>>

missing_whitespace_line(line, n) ==
    Concat([k \in 1..(Len(line) - 1) |-> missing_whitespace_at(line, n, k - 1)])

missing_whitespace_check(file_content) ==
    ListOrNone(Concat([n \in 1..Len(file_content) |->
                          missing_whitespace_line(file_content[n], n)]))

trailing_whitespace_line(line0, n) ==
    LET line == rstrip_chars(rstrip_chars(line0, {NL}), {CR})
        stripped == rstrip(line)
    IN IF line # stripped
       THEN IF stripped # <<>>
            THEN <<Diag(n, E291, Len(stripped))>>
            ELSE <<Diag(n, E293, 0)>>
       ELSE <<>>

trailing_whitespace_check(file_content) ==
    ListOrNone(Concat([n \in 1..Len(file_content) |->
                          trailing_whitespace_line(file_content[n], n)]))

\* file_content[-1] raises IndexError on an empty list
missing_newline_check(file_content) ==
    IF file_content = <<>> THEN Raised("IndexError")
    ELSE LET last == file_content[Len(file_content)] IN
         IF ~(Len(last) > 0 /\ last[Len(last)] = NL)
         THEN ListResult(<<Diag(Len(file_content), E292, Len(last) + 1)>>)
         ELSE NoneResult

\* the characters the regular expression class \w matches (ASCII part)
WordChars ==
    {"a", "b", "c", "d", "e", "f", "g", "h", "i", "j", "k", "l", "m",
     "n", "o", "p", "q", "r", "s", "t", "u", "v", "w", "x", "y", "z",
     "A", "B", "C", "D", "E", "F", "G", "H", "I", "J", "K", "L", "M",
     "N", "O", "P", "Q", "R", "S", "T", "U", "V", "W", "X", "Y", "Z",
     "0", "1", "2", "3", "4", "5", "6", "7", "8", "9", "_"}

\* the first 0-based index >= i whose character is not in cs (Len if none)
RunEnd(line, cs, i) ==
    LET stop == {j \in i..(Len(line) - 1) : At(line, j) \notin cs} IN
    IF stop = {} THEN Max(i, Len(line)) ELSE MinOf(stop)

\* the regular expression "(\w+)\s+\(" matched at 0-based position p:
\* the end of group 1 when it matches, -1 when it does not
BeforeParamAt(line, p) ==
    LET r == RunEnd(line, WordChars, p)
        e == RunEnd(line, Whitespace, r)
    IN IF r > p /\ e > r /\ e < Len(line) /\ At(line, e) = "(" THEN r ELSE 0 - 1

\* re.finditer: <<start of group 1, end of group 1>> of each match
RECURSIVE before_param_matches(_, _)
before_param_matches(line, p) ==
    IF p >= Len(line) THEN <<>>
    ELSE LET r == BeforeParamAt(line, p) IN
         IF r >= 0
         THEN <<(<<p, r>>)>>
              \o before_param_matches(line, RunEnd(line, Whitespace, r) + 1)
         ELSE before_param_matches(line, p + 1)

whitespace_before_parameters_line(line, n) ==
    LET ms == before_param_matches(line, 0) IN
    [k \in 1..Len(ms) |->
        [Diag(n, E211, ms[k][1] + 1) EXCEPT
            !.for_function = Slice(line, ms[k][1], ms[k][2])]]

whitespace_before_parameters_check(file_content) ==
    ListOrNone(Concat([n \in 1..Len(file_content) |->
                          whitespace_before_parameters_line(file_content[n], n)]))

\* the one-character entries of OPERATORS in the order of the list
OperatorOrder == <<"%", "^", "&", "|", "=", "/", "<", ">", "*", "+", "-">>

\* "while step >= 0 and line[step].isspace(): step -= 1"
check_whitespace_before_position(line, index) ==
    LET start == IF PyAt(line, index - 1) \in OPERATORS
                 THEN index - 2 ELSE index - 1
        step == IF start >= 0 THEN BackOverSpace(line, start) ELSE start
    IN IF step = 0 - 1 THEN <<0 - 1, index>> ELSE <<start - step, step>>

\* line[index + 1] raises IndexError when index is the last position
AfterPositionRaises(line, index) == index + 1 >= Len(line)

check_whitespace_after_position(line, index) ==
    LET start == IF At(line, index + 1) \in OPERATORS
                 THEN index + 2 ELSE index + 1
        step == RunEnd(line, Whitespace, start)
    IN <<step - start, index>>

around_operator_at(line, n, index) ==
    LET b == check_whitespace_before_position(line, index)
        a == check_whitespace_after_position(line, index)
    IN (IF b[1] > 1 THEN <<Diag(n, E221, b[2] + 1)>> ELSE <<>>)
       \o (IF a[1] > 1 THEN <<Diag(n, E222, a[2] + 1)>> ELSE <<>>)

around_operator_line(line, n) ==
    Concat([o \in 1..Len(OperatorOrder) |->
        LET indices == IndicesOf(line, {OperatorOrder[o]}, 0) IN
        Concat([k \in 1..Len(indices) |->
                   around_operator_at(line, n, indices[k])])])

whitespace_around_operator_check(file_content) ==
    IF \E n \in 1..Len(file_content) :
          \E i \in 0..(Len(file_content[n]) - 1) :
             /\ At(file_content[n], i) \in OPERATORS
             /\ AfterPositionRaises(file_content[n], i)
    THEN Raised("IndexError")
    ELSE ListOrNone(Concat([n \in 1..Len(file_content) |->
                               around_operator_line(file_content[n], n)]))

\* the keywords of the modelled subset of Python, as characters
Kw ==
    [import |-> <<"i", "m", "p", "o", "r", "t">>,
     from |-> <<"f", "r", "o", "m">>,
     def |-> <<"d", "e", "f">>,
     class |-> <<"c", "l", "a", "s", "s">>,
     if |-> <<"i", "f">>,
     elif |-> <<"e", "l", "i", "f">>,
     else |-> <<"e", "l", "s", "e">>,
     while |-> <<"w", "h", "i", "l", "e">>,
     for |-> <<"f", "o", "r">>,
     with |-> <<"w", "i", "t", "h">>,
     try |-> <<"t", "r", "y">>,
     except |-> <<"e", "x", "c", "e", "p", "t">>,
     finally |-> <<"f", "i", "n", "a", "l", "l", "y">>,
     return |-> <<"r", "e", "t", "u", "r", "n">>,
     in |-> <<"i", "n">>,
     not |-> <<"n", "o", "t">>,
     and |-> <<"a", "n", "d">>,
     or |-> <<"o", "r">>,
     is |-> <<"i", "s">>,
     as |-> <<"a", "s">>]

\* re.match("^\s*import\s+[^#]*,[^#]*$", line) with re.MULTILINE
MultipleImportsMatch(line) ==
    LET k == LeadLen(line, Whitespace)
        rest == SliceFrom(line, k + Len(Kw.import))
    IN /\ Slice(line, k, k + Len(Kw.import)) = Kw.import
       /\ Len(rest) > 0 /\ isspace(rest[1])
       /\ \E c \in 2..Len(rest) : rest[c] = ","
       /\ \A c \in 1..Len(rest) : rest[c] # "#"

multiple_imports_check(file_content) ==
    ListOrNone(Concat([n \in 1..Len(file_content) |->
        IF MultipleImportsMatch(file_content[n])
        THEN <<Diag(n, E401, 0)>> ELSE <<>>]))

\* ------------------------------------------------------------------------
\* ast.parse, as far as the two syntax-tree detectors look at its result.
\*
\* The model covers the subset of Python in which every statement is one
\* physical line, a compound statement has its body on the following, deeper
\* indented lines, string literals hold no "#", and a line is rejected when
\*   - its brackets are not balanced,
\*   - two names or numbers follow each other and the first is no keyword,
\*   - its indentation fits no enclosing block, a block is missing, or
\*   - an elif/else/except/finally has no statement to belong to.
\* A statement is kept as its line number, indentation, first word and
\* whether it opens a block; depth is the depth of its node in the tree.
\* ------------------------------------------------------------------------

\* the keywords after which a name may follow
Keywords ==
    {Kw.import, Kw.from, Kw.def, Kw.class, Kw.if, Kw.elif, Kw.else, Kw.while, Kw.for,
     Kw.with, Kw.try, Kw.except, Kw.finally, Kw.return, Kw.in, Kw.not, Kw.and, Kw.or,
     Kw.is, Kw.as}

BlockOpeners == {Kw.def, Kw.class, Kw.if, Kw.while, Kw.for, Kw.with, Kw.try}

Clauses == {Kw.elif, Kw.else, Kw.except, Kw.finally}

\* the line up to its comment, without trailing whitespace
CodePart(line) ==
    LET hs == IndicesOf(line, {"#"}, 0) IN
    rstrip(IF hs = <<>> THEN line ELSE SliceTo(line, hs[1]))

\* the column the first token of the line starts in (a tab goes to the next
\* multiple of eight)
RECURSIVE IndentWidth(_, _, _)
IndentWidth(line, i, col) ==
    IF i >= Len(line) THEN col
    ELSE IF At(line, i) = SP THEN IndentWidth(line, i + 1, col + 1)
    ELSE IF At(line, i) = TAB
         THEN IndentWidth(line, i + 1, ((col \div 8) + 1) * 8)
    ELSE col

\* the brackets bs (in the order of the line) are closed in the order they
\* were opened
RECURSIVE Nested(_, _)
Nested(bs, stack) ==
    IF bs = <<>> THEN stack = <<>>
    ELSE LET c == Head(bs) IN
         IF c \in {"(", "[", "{"} THEN Nested(Tail(bs), <<c>> \o stack)
         ELSE /\ stack # <<>>
              /\ Head(stack) = (CASE c = ")" -> "("
                                  [] c = "]" -> "["
                                  [] OTHER -> "{")
              /\ Nested(Tail(bs), Tail(stack))

Balanced(code) ==
    Nested(SelectSeq(code, LAMBDA c : c \in {"(", ")", "[", "]", "{", "}"}),
           <<>>)

\* the first 0-based index of the run of characters of cs that ends at i
RunStart(code, cs, i) ==
    LET stop == {j \in 0..(i - 1) : At(code, j) \notin cs} IN
    IF stop = {} THEN 0 ELSE MaxOf(stop) + 1

\* a name or number directly followed, after blanks only, by another one
AdjacentOperands(code) ==
    \E i \in 0..(Len(code) - 1) :
        /\ At(code, i) \in WordChars
        /\ i + 1 < Len(code) /\ isspace(At(code, i + 1))
        /\ LET j == RunEnd(code, Whitespace, i + 1) IN
           /\ j < Len(code) /\ At(code, j) \in WordChars
           /\ Slice(code, RunStart(code, WordChars, i), i + 1) \notin Keywords
           /\ Slice(code, j, RunEnd(code, WordChars, j)) \notin
                 {Kw.in, Kw.not, Kw.and, Kw.or, Kw.is, Kw.as, Kw.if, Kw.else,
                  Kw.import, Kw.for}

\* one statement line
Stmt(line, n) ==
    LET code == CodePart(line)
        k == LeadLen(code, Whitespace)
        word == Slice(code, k, RunEnd(code, WordChars, k))
    IN [lineno |-> n,
        indent |-> IndentWidth(line, 0, 0),
        word |-> word,
        header |-> /\ word \in BlockOpeners \cup Clauses
                   /\ code[Len(code)] = ":",
        bad |-> \/ ~Balanced(code)
                \/ AdjacentOperands(code)
                \/ word \notin BlockOpeners \cup Clauses /\ code[Len(code)] = ":"
                \/ word \in {Kw.import, Kw.from}
                      /\ RunEnd(code, WordChars, k) >= Len(code)]

\* the statements of the document, blank and comment lines left out
Stmts(file_content) ==
    Concat([n \in 1..Len(file_content) |->
        IF CodePart(file_content[n]) = <<>> THEN <<>>
        ELSE <<Stmt(file_content[n], n)>>])

\* the statement whose block statement j is in (0: the module)
Parent(ss, j) ==
    LET c == {i \in 1..(j - 1) : ss[i].indent < ss[j].indent} IN
    IF c = {} THEN 0 ELSE MaxOf(c)

\* the statement before j in the same block (0: j is the first of its block)
PrevSibling(ss, j) ==
    LET c == {i \in 1..(j - 1) : ss[i].indent <= ss[j].indent} IN
    IF c = {} \/ ss[MaxOf(c)].indent # ss[j].indent THEN 0 ELSE MaxOf(c)

ClauseFits(ss, j) ==
    LET p == PrevSibling(ss, j)
        w == ss[j].word
    IN IF w \notin Clauses THEN TRUE
       ELSE /\ p # 0 /\ ss[p].header
            /\ ss[p].word \in
                 (CASE w = Kw.elif -> {Kw.if, Kw.elif}
                    [] w = Kw.else -> {Kw.if, Kw.elif, Kw.for, Kw.while, Kw.except}
                    [] w = Kw.except -> {Kw.try, Kw.except}
                    [] OTHER -> {Kw.try, Kw.except, Kw.else})

IndentFits(ss, j) ==
    IF j = 1 THEN ss[j].indent = 0
    ELSE IF ss[j - 1].header THEN ss[j].indent > ss[j - 1].indent
    ELSE /\ ss[j].indent <= ss[j - 1].indent
         /\ \E i \in 1..(j - 1) :
               /\ ss[i].indent = ss[j].indent
               /\ \A m \in (i + 1)..(j - 1) : ss[m].indent >= ss[j].indent

\* ast.parse raises SyntaxError
SyntaxError(file_content) ==
    LET ss == Stmts(file_content) IN
    \/ \E j \in 1..Len(ss) :
          ss[j].bad \/ ~IndentFits(ss, j) \/ ~ClauseFits(ss, j)
    \/ ss # <<>> /\ ss[Len(ss)].header
    \/ \E j \in 1..Len(ss) :
          /\ ss[j].word = Kw.try /\ ss[j].header
          /\ ~\E m \in (j + 1)..Len(ss) :
                PrevSibling(ss, m) = j /\ ss[m].word \in {Kw.except, Kw.finally}

\* the depth in the tree of the node that statement j's block hangs from
RECURSIVE OwnerDepth(_, _)
OwnerDepth(ss, j) ==
    LET w == ss[j].word
        p == PrevSibling(ss, j)
        par == Parent(ss, j)
    IN CASE w = Kw.elif -> OwnerDepth(ss, p) + 1
         [] w = Kw.else -> IF ss[p].word = Kw.except
                          THEN OwnerDepth(ss, p) - 1 ELSE OwnerDepth(ss, p)
         [] w = Kw.except -> IF ss[p].word = Kw.try
                            THEN OwnerDepth(ss, p) + 1 ELSE OwnerDepth(ss, p)
         [] w = Kw.finally -> IF ss[p].word = Kw.except
                             THEN OwnerDepth(ss, p) - 1 ELSE OwnerDepth(ss, p)
         [] OTHER -> IF par = 0 THEN 1 ELSE OwnerDepth(ss, par) + 1

\* the statement of the module body that statement j is in or is
RECURSIVE Root(_, _)
Root(ss, j) == IF Parent(ss, j) = 0 THEN j ELSE Root(ss, Parent(ss, j))

IsImport(s) == s.word \in {Kw.import, Kw.from}

\* ast.walk visits the tree breadth first: the import statements by depth
\* and, within a depth, in line order
RECURSIVE WalkImports(_, _, _)
WalkImports(ss, d, maxd) ==
    IF d > maxd THEN <<>>
    ELSE Concat([j \in 1..Len(ss) |->
                    IF IsImport(ss[j]) /\ OwnerDepth(ss, j) = d
                    THEN <<j>> ELSE <<>>])
         \o WalkImports(ss, d + 1, maxd)

\* statement j lies inside a function or class of the module body
InsideFunctionOrClass(ss, j) ==
    LET r == Root(ss, j) IN r # j /\ ss[r].word \in {Kw.def, Kw.class}

\* list(range(1, n + 1))
Range1(n) == [i \in 1..n |-> i]

imports_position_check(file_content) ==
    IF SyntaxError(file_content) THEN Raised("SyntaxError")
    ELSE LET ss == Stmts(file_content)
             walk == WalkImports(ss, 1, 2 * Len(ss) + 1)
             verdict == Concat([k \in 1..Len(walk) |->
                            IF InsideFunctionOrClass(ss, walk[k]) THEN <<>>
                            ELSE <<ss[walk[k]].lineno>>])
         IN IF verdict # <<>> /\ verdict # Range1(verdict[Len(verdict)])
            THEN ListResult([k \in 1..Len(verdict) |-> Diag(verdict[k], E400, 0)])
            ELSE NoneResult

\* the number of blank lines directly above line_number, compared with the
\* expected number
calculate_blank_lines(file_content, line_number, expected_blank_lines) ==
    LET nonblank == {i \in 1..(line_number - 1) : strip(file_content[i]) # <<>>}
        blank_lines_count == IF nonblank = {} THEN line_number - 1
                             ELSE line_number - 1 - MaxOf(nonblank)
    IN IF blank_lines_count # expected_blank_lines
       THEN <<[Diag(line_number, E302, 0) EXCEPT
                  !.expected = expected_blank_lines,
                  !.received = blank_lines_count]>>
       ELSE <<>>

\* sorted(violations, key = line_number): a stable insertion sort
RECURSIVE InsertByLine(_, _)
InsertByLine(sorted, v) ==
    IF sorted = <<>> THEN <<v>>
    ELSE IF sorted[Len(sorted)].line_number <= v.line_number
         THEN Append(sorted, v)
         ELSE Append(InsertByLine(SubSeq(sorted, 1, Len(sorted) - 1), v),
                     sorted[Len(sorted)])

RECURSIVE SortByLine(_)
SortByLine(vs) ==
    IF vs = <<>> THEN <<>>
    ELSE InsertByLine(SortByLine(SubSeq(vs, 1, Len(vs) - 1)), vs[Len(vs)])

expected_blank_lines_check(file_content) ==
    IF SyntaxError(file_content) THEN Raised("SyntaxError")
    ELSE LET ss == Stmts(file_content)
             standalone_functions_classes ==
                 Concat([j \in 1..Len(ss) |->
                     IF Parent(ss, j) = 0 /\ ss[j].word \in {Kw.def, Kw.class}
                     THEN <<ss[j].lineno>> ELSE <<>>])
             methods ==
                 Concat([j \in 1..Len(ss) |->
                     IF /\ ss[j].word = Kw.def
                        /\ Parent(ss, j) # 0
                        /\ Parent(ss, Parent(ss, j)) = 0
                        /\ ss[Parent(ss, j)].word = Kw.class
                     THEN <<ss[j].lineno>> ELSE <<>>])
             violations ==
                 Concat([k \in 1..Len(standalone_functions_classes) |->
                     calculate_blank_lines(file_content,
                         standalone_functions_classes[k], 2)])
                 \o
                 Concat([k \in 1..Len(methods) |->
                     calculate_blank_lines(file_content, methods[k], 1)])
         IN IF violations # <<>> THEN ListResult(SortByLine(violations))
            ELSE NoneResult

\* ------------------------------------------------------------------------
\* corrective_actions.py: helpers and correctors.  A corrector yields the
\* documents it passed to write_to_file, in the order of the calls.
\* ------------------------------------------------------------------------

\* tabs_corrective_action without "if prev_line_number == line_number:
\* continue"
tabs_corrective_action_every_diagnostic(content, violations) ==
    [writes |->
        [i \in 1..Len(violations) |->
            [content EXCEPT ![violations[i].line_number] =
                SubSeq(@, 1, violations[i].column) \o <<" ", " ", " ", " ">>
                   \o SubSeq(@, violations[i].column + 2, Len(@))]],
     exc |-> ""]

\* remove_whitespace_and_count deleting the character at start_index when no
\* whitespace starts there
remove_whitespace_and_count_or_char(s, start_index) ==
    LET end_index == RunEnd(s, Whitespace, start_index) IN
    IF end_index = start_index
    THEN <<SliceTo(s, start_index) \o SliceFrom(s, start_index + 1), 1>>
    ELSE <<SliceTo(s, start_index)
             \o RemoveSpaces(Slice(s, start_index, end_index))
             \o SliceFrom(s, end_index),
           end_index - start_index>>

\* <<modified_line, count>>
remove_whitespace_and_count(s, start_index) ==
    LET end_index == RunEnd(s, Whitespace, start_index) IN
    <<SliceTo(s, start_index)
        \o RemoveSpaces(Slice(s, start_index, end_index))
        \o SliceFrom(s, end_index),
      end_index - start_index>>

\* insert_whitespace one position to the left
insert_whitespace_left(line, position) ==
    SliceTo(line, position - 1) \o <<SP>> \o SliceFrom(line, position - 1)

insert_whitespace(line, position) ==
    SliceTo(line, position) \o <<SP>> \o SliceFrom(line, position)

\* list.insert(i, x) and del list[i] for a 0-based i
ListInsert(s, i, x) ==
    SubSeq(s, 1, Min(i, Len(s))) \o <<x>> \o SubSeq(s, Min(i, Len(s)) + 1, Len(s))

ListDel(s, i) == SubSeq(s, 1, i) \o SubSeq(s, i + 2, Len(s))

\* the edit one diagnostic makes to its line in the correctors that edit
\* inside a line
EditLine(fix, line, v) ==
    CASE fix = "tabs_corrective_action" ->
            SliceTo(line, v.column) \o <<SP, SP, SP, SP>>
               \o SliceFrom(line, v.column + 1)
      [] fix = "extraneous_whitespace_corrective_action" ->
            remove_whitespace_and_count(line, v.column)[1]
      [] fix = "missing_whitespace_corrective_action" ->
            insert_whitespace(line, v.column + 1)
      [] fix = "whitespace_before_parameters_corrective_action" ->
            remove_whitespace_and_count(
                line, v.column + Len(v.for_function) - 1)[1]
      [] fix = "whitespace_around_operator_corrective_action" ->
            remove_whitespace_and_count(line, v.column + 1)[1]

\* "for violation in violations: ... write_to_file(path, lines)": the loop of
\* the in-line correctors; skip says whether a diagnostic on the line of the
\* previous applied one is passed over (prev_line_number = 0 stands for None)
RECURSIVE EditLoop(_, _, _, _, _, _, _)
EditLoop(fix, skip, lines, violations, i, prev_line_number, writes) ==
    IF i > Len(violations) THEN Fixed(writes)
    ELSE LET v == violations[i]
             line_number == v.line_number
         IN IF skip /\ prev_line_number = line_number
            THEN EditLoop(fix, skip, lines, violations, i + 1,
                          prev_line_number, writes)
            ELSE LET new == [lines EXCEPT ![line_number] = EditLine(fix, @, v)]
                 IN EditLoop(fix, skip, new, violations, i + 1,
                             line_number, Append(writes, new))

tabs_corrective_action(content, violations) ==
    EditLoop("tabs_corrective_action", TRUE, content, violations, 1, 0, <<>>)

extraneous_whitespace_corrective_action(content, violations) ==
    EditLoop("extraneous_whitespace_corrective_action", TRUE, content,
             violations, 1, 0, <<>>)

missing_whitespace_corrective_action(content, violations) ==
    EditLoop("missing_whitespace_corrective_action", TRUE, content,
             violations, 1, 0, <<>>)

whitespace_before_parameters_corrective_action(content, violations) ==
    EditLoop("whitespace_before_parameters_corrective_action", FALSE, content,
             violations, 1, 0, <<>>)

whitespace_around_operator_corrective_action(content, violations) ==
    EditLoop("whitespace_around_operator_corrective_action", TRUE, content,
             violations, 1, 0, <<>>)

RECURSIVE trailing_loop(_, _, _)
trailing_loop(lines, violations, i) ==
    IF i > Len(violations) THEN lines
    ELSE LET v == violations[i]
             new == [lines EXCEPT ![v.line_number] =
                        IF v.violation_type = E291
                        THEN remove_whitespace_and_count(@, v.column)[1]
                        ELSE IF v.violation_type = E293
                        THEN strip(@) \o <<NL>>
                        ELSE @]
         IN trailing_loop(new, violations, i + 1)

trailing_whitespace_corrective_action(content, violations) ==
    Fixed(<<trailing_loop(content, violations, 1)>>)

imports_position_corrective_action(content, violations) ==
    LET stored_lines == [k \in 1..Len(violations) |->
                            strip(content[violations[k].line_number])]
        remove == {violations[k].line_number : k \in 1..Len(violations)}
        lines == Concat([n \in 1..Len(content) |->
                    IF n \in remove THEN <<>> ELSE <<content[n]>>])
    IN Fixed(<<[k \in 1..Len(stored_lines) |-> stored_lines[k] \o <<NL>>]
               \o lines>>)

\* the 0-based index of the first occurrence of sub in s at or after i, or -1
Find(s, sub, i) ==
    LET hits == {j \in i..(Len(s) - Len(sub)) : Slice(s, j, j + Len(sub)) = sub}
    IN IF hits = {} THEN 0 - 1 ELSE MinOf(hits)

\* s.replace(sub, "")
RECURSIVE Remove(_, _)
Remove(s, sub) ==
    LET k == Find(s, sub, 0) IN
    IF k < 0 THEN s
    ELSE SliceTo(s, k) \o Remove(SliceFrom(s, k + Len(sub)), sub)

\* s.split(c) for a single character c
RECURSIVE Split(_, _)
Split(s, c) ==
    LET k == Find(s, <<c>>, 0) IN
    IF k < 0 THEN <<s>>
    ELSE <<SliceTo(s, k)>> \o Split(SliceFrom(s, k + 1), c)

\* the lines that replace one "import a, b" line
SplitImport(import_line) ==
    LET k == Find(import_line, Kw.import, 0)
        indentation == IF k < 0 THEN import_line ELSE SliceTo(import_line, k)
        modules == Split(Remove(import_line, Kw.import \o <<SP>>), ",")
    IN [m \in 1..Len(modules) |->
           indentation \o Kw.import \o <<SP>> \o strip(modules[m]) \o <<NL>>]

\* the loop of multiple_imports_corrective_action without its running offset
RECURSIVE multiple_imports_loop_no_offset(_, _, _, _)
multiple_imports_loop_no_offset(lines, violations, i, offset) ==
    IF i > Len(violations) THEN lines
    ELSE LET line_number == violations[i].line_number
             imports == SplitImport(lines[line_number])
             new == SubSeq(lines, 1, line_number - 1) \o imports
                    \o SubSeq(lines, line_number + 1, Len(lines))
         IN multiple_imports_loop_no_offset(new, violations, i + 1, offset)

RECURSIVE multiple_imports_loop(_, _, _, _)
multiple_imports_loop(lines, violations, i, offset) ==
    IF i > Len(violations) THEN lines
    ELSE LET line_number == violations[i].line_number + offset
             imports == SplitImport(lines[line_number])
             new == SubSeq(lines, 1, line_number - 1) \o imports
                    \o SubSeq(lines, line_number + 1, Len(lines))
         IN multiple_imports_loop(new, violations, i + 1,
                                  offset + Len(imports) - 1)

multiple_imports_corrective_action(content, violations) ==
    Fixed(<<multiple_imports_loop(content, violations, 1, 0)>>)

\* "lines.insert(line_number - 1, '\n')" d times
RECURSIVE InsertBlank(_, _, _)
InsertBlank(lines, line_number, d) ==
    IF d = 0 THEN lines
    ELSE InsertBlank(ListInsert(lines, line_number - 1, <<NL>>),
                     line_number + 1, d - 1)

\* "del lines[line_number - 2]" d times; a negative index counts from the end
RECURSIVE DeleteAbove(_, _, _)
DeleteAbove(lines, line_number, d) ==
    IF d = 0 THEN lines
    ELSE LET i == IF line_number - 2 >= 0 THEN line_number - 2
                  ELSE Len(lines) + line_number - 2
         IN DeleteAbove(ListDel(lines, i), line_number - 1, d - 1)

\* the loop of blank_lines_corrective_action without its running offset
RECURSIVE blank_lines_loop_no_offset(_, _, _, _)
blank_lines_loop_no_offset(lines, violations, i, offset) ==
    IF i > Len(violations) THEN lines
    ELSE LET line_number == violations[i].line_number
             blank_lines_diff == violations[i].expected - violations[i].received
             new == IF blank_lines_diff > 0
                    THEN InsertBlank(lines, line_number, blank_lines_diff)
                    ELSE IF blank_lines_diff < 0
                    THEN DeleteAbove(lines, line_number, 0 - blank_lines_diff)
                    ELSE lines
         IN blank_lines_loop_no_offset(new, violations, i + 1, offset)

RECURSIVE blank_lines_loop(_, _, _, _)
blank_lines_loop(lines, violations, i, offset) ==
    IF i > Len(violations) THEN lines
    ELSE LET line_number == violations[i].line_number + offset
             blank_lines_diff == violations[i].expected - violations[i].received
             new == IF blank_lines_diff > 0
                    THEN InsertBlank(lines, line_number, blank_lines_diff)
                    ELSE IF blank_lines_diff < 0
                    THEN DeleteAbove(lines, line_number, 0 - blank_lines_diff)
                    ELSE lines
         IN blank_lines_loop(new, violations, i + 1, offset + blank_lines_diff)

blank_lines_corrective_action(content, violations) ==
    Fixed(<<blank_lines_loop(content, violations, 1, 0)>>)

missing_newline_corrective_action(content, violations) ==
    Fixed(<<Append(content, <<NL>>)>>)

\* ------------------------------------------------------------------------
\* file_handler.py: the execution list and the callbacks
\* ------------------------------------------------------------------------

EXECUTION_LIST ==
    << <<"trailing_whitespace_check", "trailing_whitespace_corrective_action">>,
       <<"tabs_check", "tabs_corrective_action">>,
       <<"extraneous_whitespace_check",
         "extraneous_whitespace_corrective_action">>,
       <<"missing_whitespace_check", "missing_whitespace_corrective_action">>,
       <<"whitespace_before_parameters_check",
         "whitespace_before_parameters_corrective_action">>,
       <<"whitespace_around_operator_check",
         "whitespace_around_operator_corrective_action">>,
       <<"imports_position_check", "imports_position_corrective_action">>,
       <<"multiple_imports_check", "multiple_imports_corrective_action">>,
       <<"expected_blank_lines_check", "blank_lines_corrective_action">>,
       <<"trailing_whitespace_check", "trailing_whitespace_corrective_action">>,
       <<"missing_newline_check", "missing_newline_corrective_action">> >>

\* the safety limit of analyze ("if safety_step_count >= 10")
SAFETY_LIMIT == 10

\* callback_check(file_content) for the detector of that name
Detect(check, file_content) ==
    CASE check = "trailing_whitespace_check" ->
            trailing_whitespace_check(file_content)
      [] check = "tabs_check" -> tabs_check(file_content)
      [] check = "extraneous_whitespace_check" ->
            extraneous_whitespace_check(file_content)
      [] check = "missing_whitespace_check" ->
            missing_whitespace_check(file_content)
      [] check = "whitespace_before_parameters_check" ->
            whitespace_before_parameters_check(file_content)
      [] check = "whitespace_around_operator_check" ->
            whitespace_around_operator_check(file_content)
      [] check = "imports_position_check" ->
            imports_position_check(file_content)
      [] check = "multiple_imports_check" ->
            multiple_imports_check(file_content)
      [] check = "expected_blank_lines_check" ->
            expected_blank_lines_check(file_content)
      [] check = "missing_newline_check" ->
            missing_newline_check(file_content)

\* callback_fix(path, file_content, violations) for the corrector of that name
Correct(fix, content, violations) ==
    CASE fix = "trailing_whitespace_corrective_action" ->
            trailing_whitespace_corrective_action(content, violations)
      [] fix = "tabs_corrective_action" ->
            tabs_corrective_action(content, violations)
      [] fix = "extraneous_whitespace_corrective_action" ->
            extraneous_whitespace_corrective_action(content, violations)
      [] fix = "missing_whitespace_corrective_action" ->
            missing_whitespace_corrective_action(content, violations)
      [] fix = "whitespace_before_parameters_corrective_action" ->
            whitespace_before_parameters_corrective_action(content, violations)
      [] fix = "whitespace_around_operator_corrective_action" ->
            whitespace_around_operator_corrective_action(content, violations)
      [] fix = "imports_position_corrective_action" ->
            imports_position_corrective_action(content, violations)
      [] fix = "multiple_imports_corrective_action" ->
            multiple_imports_corrective_action(content, violations)
      [] fix = "blank_lines_corrective_action" ->
            blank_lines_corrective_action(content, violations)
      [] fix = "missing_newline_corrective_action" ->
            missing_newline_corrective_action(content, violations)

\* ------------------------------------------------------------------------
\* The documents and folders the model starts from
\* ------------------------------------------------------------------------

\* bounds of the document families
MaxTabs == 10
MaxCommas == 3
MaxStubWrites == 1

Repeat(s, k) == Concat([i \in 1..k |-> s])

\* "x<k tabs>= 1": k tab violations on one line
TabLine(k) == <<"x">> \o Repeat(<<TAB>>, k) \o <<"=", SP, "1", NL>>

\* "f(a,a,...)": k missing-whitespace violations on one line
CommaLine(k) == <<"f", "(", "a">> \o Repeat(<<",", "a">>, k) \o <<")", NL>>

ImportOs == Kw.import \o <<SP, "o", "s">>

DefF == Kw.def \o <<SP, "f", "(", ")", ":", NL>>

Assign == <<"x", SP, "=", SP, "1">>

\* the two parts of a line around " ," (a space before a comma and none
\* after it): "x = [1, 2 ,3]", "f(a ,b)" and "y = (a, b ,c)"
SpaceCommaParts ==
    {<<<<"x", SP, "=", SP, "[", "1", ",", SP, "2">>, <<"3", "]", NL>> >>,
     <<<<"f", "(", "a">>, <<"b", ")", NL>> >>,
     <<<<"y", SP, "=", SP, "(", "a", ",", SP, "b">>, <<"c", ")", NL>> >>}

SpaceComma(part) == part[1] \o <<SP, ",">> \o part[2]

Docs ==
    {TabLine(k) : k \in 0..MaxTabs}
    \cup {CommaLine(k) : k \in 1..MaxCommas}
    \cup {SpaceComma(part) : part \in SpaceCommaParts}
    \cup {TabLine(1) \o TabLine(2),
          <<>>,
          Assign,
          Assign \o <<SP, SP, NL>>,
          <<"x", SP, "=", SP, "(", NL>>,
          <<"f", SP, "(", "x", ")", NL, "g", SP, SP, "(", "y", ")", NL>>,
          ImportOs \o <<",", SP, "s", "y", "s", NL>>,
          ImportOs \o <<NL>> \o Assign \o <<NL>> \o Kw.import \o <<SP, "r", "e", NL>>,
          Assign \o <<NL>> \o DefF \o <<SP, SP, SP, SP, "p", "a", "s", "s", NL>>}

\* the documents of the second file of a folder
MoreDocs == {TabLine(0), TabLine(1), <<"x", SP, "=", SP, "(", NL>>}

\* the texts the stand-in callbacks read and write
StubTexts == {<<"a", NL>>, <<"b", NL>>}

\* a file name: the part before ".py", whether "-Copy" occurs in it, and
\* the extension
Name(stem, copy, ext) == [stem |-> stem, copy |-> copy, ext |-> ext]

Stems == {"a", "b"}

FileNames ==
    {Name(s, c, "py") : s \in Stems, c \in BOOLEAN}
    \cup {Name("notes", FALSE, "txt")}

NoFile == [exists |-> FALSE, text |-> <<>>]

File(text) == [exists |-> TRUE, text |-> text]

\* the copy path taken to be the path of the file itself
CopyPath_in_place(name) == name

\* f"{os.path.splitext(file)[0]}-Copy.py"
CopyPath(name) == Name(name.stem, TRUE, "py")

\* all([file.endswith(".py"), "-Copy" not in file])
IsSource(name) == name.ext = "py" /\ ~name.copy

\* the orders os.walk may list the names of S in
Orders(S) ==
    {o \in [1..Cardinality(S) -> S] : \A n \in S : \E i \in DOMAIN o : o[i] = n}

\* ------------------------------------------------------------------------
\* State
\* ------------------------------------------------------------------------

VARIABLES
    callbacks,          \* "EXECUTION_LIST": the detectors and correctors of
                        \* the program; "stub": arbitrary callbacks
    disk,               \* the files of the folder, by name
    folder_contents,    \* the paths FolderHandler.__enter__ returned
    pc,                 \* where main() is
    path_index,         \* main: index of the current path in folder_contents
    execution,          \* run_pycodestyle: index in EXECUTION_LIST
    status,             \* analyze: status
    safety_step_count,  \* analyze: safety_step_count
    file_content,       \* analyze: file_content
    violations,         \* analyze: violations
    exc,                \* the exception that is propagating, "" when none
    last_error,         \* the last record log_obj.error() was given
    opened,             \* the paths opened in the editor
    det_runs,           \* callback_check calls made by the current analyze
    fix_runs,           \* callback_fix calls made by the current analyze
    writes,             \* the texts written to the file since its last read
    analyzed,           \* the entries of EXECUTION_LIST analyze was called
                        \* with for the current file
    stopped             \* why the last analyze call ended: "clean", "cap",
                        \* or the exception it raised; "" while it runs

vars ==
    <<callbacks, disk, folder_contents, pc, path_index, execution, status,
      safety_step_count, file_content, violations, exc, last_error, opened,
      det_runs, fix_runs, writes, analyzed, stopped>>

NoError == [msg |-> "", fix |-> "", steps |-> 0]

Error(msg, fix, steps) ==
    [msg |-> msg, fix |-> fix, steps |-> steps]

InitLocals ==
    /\ folder_contents = <<>>
    /\ pc = "main"
    /\ path_index = 0
    /\ execution = 0
    /\ status = FALSE
    /\ safety_step_count = 0
    /\ file_content = <<>>
    /\ violations = NoneResult
    /\ exc = ""
    /\ last_error = NoError
    /\ opened = {}
    /\ det_runs = 0
    /\ fix_runs = 0
    /\ writes = <<>>
    /\ analyzed = {}
    /\ stopped = ""

\* the folder holds notes.txt, a.py or nothing more, and b.py or not
Init ==
    /\ callbacks = "EXECUTION_LIST"
    /\ \E a \in {NoFile} \cup {File(d) : d \in Docs},
          b \in {NoFile} \cup {File(d) : d \in MoreDocs} :
          disk = [n \in FileNames |->
                     IF n = Name("a", FALSE, "py") THEN a
                     ELSE IF n = Name("b", FALSE, "py") THEN b
                     ELSE IF n = Name("notes", FALSE, "txt") THEN File(<<"n">>)
                     ELSE NoFile]
    /\ InitLocals

InitCallbacks ==
    /\ callbacks = "stub"
    /\ \E a \in {NoFile} \cup {File(d) : d \in StubTexts} :
          disk = [n \in FileNames |->
                     IF n = Name("a", FALSE, "py") THEN a
                     ELSE IF n = Name("notes", FALSE, "txt") THEN File(<<"n">>)
                     ELSE NoFile]
    /\ InitLocals

\* ------------------------------------------------------------------------
\* Operations
\* ------------------------------------------------------------------------

\* the path main() is working on
Path == folder_contents[path_index]

\* FolderHandler.__enter__: the source files the walk copies
Sources(d) == {n \in FileNames : d[n].exists /\ IsSource(n)}

\* FolderHandler.__enter__: the folder once every source has been copied
Copied(d) ==
    [n \in FileNames |->
        IF \E s \in Sources(d) : CopyPath(s) = n
        THEN File(d[CHOOSE s \in Sources(d) : CopyPath(s) = n].text)
        ELSE d[n]]

\* main: "with FolderHandler(folder_path) as folder_contents:" and the test
\* for an empty list, which raises FolderHandlerError to main's handler
main_enter_folder ==
    /\ pc = "main"
    /\ \E order \in Orders(Sources(disk)) :
          folder_contents' = [i \in DOMAIN order |-> CopyPath(order[i])]
    /\ disk' = Copied(disk)
    /\ IF Sources(disk) = {}
       THEN /\ last_error' = Error("No Python files were found", "", 0)
            /\ pc' = "done"
       ELSE /\ pc' = "loop"
            /\ UNCHANGED last_error
    /\ UNCHANGED <<callbacks, path_index, execution, status, safety_step_count,
                   file_content, violations, exc, opened, det_runs, fix_runs,
                   writes, analyzed, stopped>>

\* main: "for path in folder_contents:" up to the call of run_pycodestyle
main_loop ==
    /\ pc = "loop"
    /\ IF path_index < Len(folder_contents)
       THEN /\ path_index' = path_index + 1
            /\ execution' = 0
            /\ analyzed' = {}
            /\ pc' = "run"
       ELSE /\ pc' = "done"
            /\ UNCHANGED <<path_index, execution, analyzed>>
    /\ UNCHANGED <<callbacks, disk, folder_contents, status, safety_step_count,
                   file_content, violations, exc, last_error, opened, det_runs,
                   fix_runs, writes, stopped>>

\* run_pycodestyle passing over the second entry of the list
run_pycodestyle_skips_entry ==
    /\ pc = "run"
    /\ IF execution < Len(EXECUTION_LIST)
       THEN /\ execution' = (IF execution = 1 THEN 3 ELSE execution + 1)
            /\ analyzed' = analyzed \cup {execution'}
            /\ status' = TRUE
            /\ safety_step_count' = 0
            /\ det_runs' = 0
            /\ fix_runs' = 0
            /\ stopped' = ""
            /\ pc' = "while"
       ELSE /\ pc' = "ask"
            /\ UNCHANGED <<execution, analyzed, status, safety_step_count,
                           det_runs, fix_runs, stopped>>
    /\ UNCHANGED <<callbacks, disk, folder_contents, path_index, file_content,
                   violations, exc, last_error, opened, writes>>

\* run_pycodestyle: "for execution in EXECUTION_LIST:" up to the first line
\* of analyze
run_pycodestyle ==
    /\ pc = "run"
    /\ IF execution < Len(EXECUTION_LIST)
       THEN /\ execution' = execution + 1
            /\ analyzed' = analyzed \cup {execution + 1}
            /\ status' = TRUE
            /\ safety_step_count' = 0
            /\ det_runs' = 0
            /\ fix_runs' = 0
            /\ stopped' = ""
            /\ pc' = "while"
       ELSE /\ pc' = "ask"
            /\ UNCHANGED <<execution, analyzed, status, safety_step_count,
                           det_runs, fix_runs, stopped>>
    /\ UNCHANGED <<callbacks, disk, folder_contents, path_index, file_content,
                   violations, exc, last_error, opened, writes>>

\* analyze with the safety limit tested after the pass instead of before it
analyze_limit_after_pass ==
    /\ pc = "while"
    /\ IF ~status
       THEN /\ stopped' = "clean"
            /\ pc' = "run"
            /\ UNCHANGED <<safety_step_count, last_error>>
       ELSE /\ safety_step_count' = safety_step_count + 1
            /\ IF safety_step_count + 1 >= SAFETY_LIMIT + 1
               THEN /\ last_error' = Error("Code style analysis failed on",
                                           EXECUTION_LIST[execution][2],
                                           safety_step_count + 1)
                    /\ stopped' = "cap"
                    /\ pc' = "run"
               ELSE /\ pc' = "read"
                    /\ UNCHANGED <<last_error, stopped>>
    /\ UNCHANGED <<callbacks, disk, folder_contents, path_index, execution,
                   status, file_content, violations, exc, opened, det_runs,
                   fix_runs, writes, analyzed>>

\* analyze with the safety limit tested two steps late
analyze_late_limit ==
    /\ pc = "while"
    /\ IF ~status
       THEN /\ stopped' = "clean"
            /\ pc' = "run"
            /\ UNCHANGED <<safety_step_count, last_error>>
       ELSE /\ safety_step_count' = safety_step_count + 1
            /\ IF safety_step_count + 1 >= SAFETY_LIMIT + 2
               THEN /\ last_error' = Error("Code style analysis failed on",
                                           EXECUTION_LIST[execution][2],
                                           safety_step_count + 1)
                    /\ stopped' = "cap"
                    /\ pc' = "run"
               ELSE /\ pc' = "read"
                    /\ UNCHANGED <<last_error, stopped>>
    /\ UNCHANGED <<callbacks, disk, folder_contents, path_index, execution,
                   status, file_content, violations, exc, opened, det_runs,
                   fix_runs, writes, analyzed>>

\* analyze raising at the safety limit instead of leaving the loop
analyze_raises_at_limit ==
    /\ pc = "while"
    /\ IF ~status
       THEN /\ stopped' = "clean"
            /\ pc' = "run"
            /\ UNCHANGED <<safety_step_count, last_error, exc>>
       ELSE /\ safety_step_count' = safety_step_count + 1
            /\ IF safety_step_count + 1 >= SAFETY_LIMIT
               THEN /\ last_error' = Error("Code style analysis failed on",
                                           EXECUTION_LIST[execution][2],
                                           safety_step_count + 1)
                    /\ stopped' = "cap"
                    /\ exc' = "RuntimeError"
                    /\ pc' = "except"
               ELSE /\ pc' = "read"
                    /\ UNCHANGED <<last_error, stopped, exc>>
    /\ UNCHANGED <<callbacks, disk, folder_contents, path_index, execution,
                   status, file_content, violations, opened, det_runs,
                   fix_runs, writes, analyzed>>

\* analyze: "while status:", the step count and the safety limit
analyze ==
    /\ pc = "while"
    /\ IF ~status
       THEN /\ stopped' = "clean"
            /\ pc' = "run"
            /\ UNCHANGED <<safety_step_count, last_error>>
       ELSE /\ safety_step_count' = safety_step_count + 1
            /\ IF safety_step_count + 1 >= SAFETY_LIMIT
               THEN /\ last_error' = Error("Code style analysis failed on",
                                           EXECUTION_LIST[execution][2],
                                           safety_step_count + 1)
                    /\ stopped' = "cap"
                    /\ pc' = "run"
               ELSE /\ pc' = "read"
                    /\ UNCHANGED <<last_error, stopped>>
    /\ UNCHANGED <<callbacks, disk, folder_contents, path_index, execution,
                   status, file_content, violations, exc, opened, det_runs,
                   fix_runs, writes, analyzed>>

\* read_from_file keeping the lines of its first read of a category
read_from_file_cached ==
    /\ pc = "read"
    /\ \/ /\ file_content' = (IF safety_step_count > 1 THEN file_content
                              ELSE readlines(disk[Path].text))
          /\ writes' = <<>>
          /\ pc' = "check"
          /\ UNCHANGED <<exc, stopped>>
       \/ /\ exc' = "OSError"
          /\ stopped' = "OSError"
          /\ pc' = "except"
          /\ UNCHANGED <<file_content, writes>>
    /\ UNCHANGED <<callbacks, disk, folder_contents, path_index, execution,
                   status, safety_step_count, violations, last_error, opened,
                   det_runs, fix_runs, analyzed>>

\* read_from_file: the lines of the file, or the I/O error of open()
read_from_file ==
    /\ pc = "read"
    /\ \/ /\ file_content' = readlines(disk[Path].text)
          /\ writes' = <<>>
          /\ pc' = "check"
          /\ UNCHANGED <<exc, stopped>>
       \/ /\ exc' = "OSError"
          /\ stopped' = "OSError"
          /\ pc' = "except"
          /\ UNCHANGED <<file_content, writes>>
    /\ UNCHANGED <<callbacks, disk, folder_contents, path_index, execution,
                   status, safety_step_count, violations, last_error, opened,
                   det_runs, fix_runs, analyzed>>

\* what callback_check may hand back
CheckOutcomes ==
    IF callbacks = "EXECUTION_LIST"
    THEN {Detect(EXECUTION_LIST[execution][1], file_content)}
    ELSE {NoneResult, ListResult(<<Diag(1, 0, 0)>>), OtherResult,
          Raised("Exception")}

\* analyze: "violations = callback_check(file_content)"
callback_check ==
    /\ pc = "check"
    /\ det_runs' = det_runs + 1
    /\ \E r \in CheckOutcomes :
          IF r.kind = "raise"
          THEN /\ exc' = r.exc
               /\ stopped' = r.exc
               /\ pc' = "except"
               /\ UNCHANGED violations
          ELSE /\ violations' = r
               /\ pc' = "parse"
               /\ UNCHANGED <<exc, stopped>>
    /\ UNCHANGED <<callbacks, disk, folder_contents, path_index, execution,
                   status, safety_step_count, file_content, last_error, opened,
                   fix_runs, writes, analyzed>>

\* parse_pycodestyle_output taking None for a list of violations
parse_output_none_is_dirty(output) ==
    IF output.kind = "other" THEN "exit" ELSE "True"

\* parse_pycodestyle_output without the isinstance test
parse_output_unchecked(output) ==
    IF output.kind # "None" THEN "True" ELSE "False"

\* parse_pycodestyle_output: "True", "False", or "exit" for sys.exit(1)
parse_output(output) ==
    IF output.kind # "None"
    THEN IF output.kind # "list" THEN "exit" ELSE "True"
    ELSE "False"

\* analyze: "status = self.parse_pycodestyle_output(violations)"
parse_pycodestyle_output ==
    /\ pc = "parse"
    /\ LET r == parse_output(violations) IN
       IF r = "exit"
       THEN /\ last_error' = Error("Expected a list as the output", "", 0)
            /\ pc' = "exit"
            /\ UNCHANGED status
       ELSE /\ status' = (r = "True")
            /\ pc' = IF r = "True" THEN "fix" ELSE "while"
            /\ UNCHANGED last_error
    /\ UNCHANGED <<callbacks, disk, folder_contents, path_index, execution,
                   safety_step_count, file_content, violations, exc, opened,
                   det_runs, fix_runs, writes, analyzed, stopped>>

\* the first k documents of ws are written, and the next write fails
WriteFails(ws, k) == FixRaised(SubSeq(ws, 1, k), "OSError")

\* what callback_fix may do: its writes in order and how it ends
FixOutcomes ==
    IF callbacks = "EXECUTION_LIST"
    THEN LET o == Correct(EXECUTION_LIST[execution][2], file_content,
                          violations.items)
         IN {o} \cup {WriteFails(o.writes, k) : k \in 0..(Len(o.writes) - 1)}
    ELSE {[writes |-> [i \in 1..Len(ts) |-> readlines(ts[i])], exc |-> e] :
             ts \in UNION {[1..k -> StubTexts] : k \in 0..MaxStubWrites},
             e \in {"", "Exception"}}

\* analyze: "callback_fix(self.file_path, file_content, violations)";
\* write_to_file replaces the whole file by the joined lines
callback_fix ==
    /\ pc = "fix"
    /\ fix_runs' = fix_runs + 1
    /\ \E o \in FixOutcomes :
          /\ writes' = writes \o [i \in 1..Len(o.writes) |->
                                     JoinLines(o.writes[i])]
          /\ disk' = IF o.writes = <<>> THEN disk
                     ELSE [disk EXCEPT ![Path] =
                              File(JoinLines(o.writes[Len(o.writes)]))]
          /\ IF o.exc # ""
             THEN /\ exc' = o.exc
                  /\ stopped' = o.exc
                  /\ pc' = "except"
             ELSE /\ pc' = "while"
                  /\ UNCHANGED <<exc, stopped>>
    /\ UNCHANGED <<callbacks, folder_contents, path_index, execution, status,
                   safety_step_count, file_content, violations, last_error,
                   opened, det_runs, analyzed>>

\* run_pycodestyle logging the exception without raising
run_pycodestyle_except_continue ==
    /\ pc = "except"
    /\ last_error' = Error(exc, "", 0)
    /\ exc' = ""
    /\ pc' = "run"
    /\ UNCHANGED <<callbacks, disk, folder_contents, path_index, execution,
                   status, safety_step_count, file_content, violations, opened,
                   det_runs, fix_runs, writes, analyzed, stopped>>

\* run_pycodestyle: "except Exception as e: log_obj.error(e); raise
\* CodeStyleAnalysisError(...)"
run_pycodestyle_except ==
    /\ pc = "except"
    /\ last_error' = Error(exc, "", 0)
    /\ exc' = "CodeStyleAnalysisError"
    /\ pc' = "main_except"
    /\ UNCHANGED <<callbacks, disk, folder_contents, path_index, execution,
                   status, safety_step_count, file_content, violations, opened,
                   det_runs, fix_runs, writes, analyzed, stopped>>

\* main catching the exception inside its loop over the paths
main_except_next_file ==
    /\ pc = "main_except"
    /\ last_error' = Error("Code style analysis failed.", "", 0)
    /\ exc' = ""
    /\ pc' = "loop"
    /\ UNCHANGED <<callbacks, disk, folder_contents, path_index, execution,
                   status, safety_step_count, file_content, violations, opened,
                   det_runs, fix_runs, writes, analyzed, stopped>>

\* main: "except Exception as e: log_obj.error(e)" and "return True"
main_except ==
    /\ pc = "main_except"
    /\ last_error' = Error("Code style analysis failed.", "", 0)
    /\ exc' = ""
    /\ pc' = "done"
    /\ UNCHANGED <<callbacks, disk, folder_contents, path_index, execution,
                   status, safety_step_count, file_content, violations, opened,
                   det_runs, fix_runs, writes, analyzed, stopped>>

\* main: "if ask_user_open_file(path): file_handler.open()"
ask_user_open_file ==
    /\ pc = "ask"
    /\ \E answer \in BOOLEAN :
          opened' = IF answer THEN opened \cup {Path} ELSE opened
    /\ pc' = "loop"
    /\ UNCHANGED <<callbacks, disk, folder_contents, path_index, execution,
                   status, safety_step_count, file_content, violations, exc,
                   last_error, det_runs, fix_runs, writes, analyzed, stopped>>

Next ==
    \/ main_enter_folder
    \/ main_loop
    \/ run_pycodestyle
    \/ analyze
    \/ read_from_file
    \/ callback_check
    \/ parse_pycodestyle_output
    \/ callback_fix
    \/ run_pycodestyle_except
    \/ main_except
    \/ ask_user_open_file

\* the program with its own detectors and correctors
Spec == Init /\ [][Next]_vars

\* the controller driven with arbitrary callbacks
SpecCallbacks == InitCallbacks /\ [][Next]_vars

\* main() is one sequential thread: a step that can be taken is taken
FairSpec == Spec /\ WF_vars(Next)

FairSpecCallbacks == SpecCallbacks /\ WF_vars(Next)

\* ------------------------------------------------------------------------
\* Properties of the controller
\* ------------------------------------------------------------------------

\* main() has returned or the process has exited
Terminated == pc \in {"done", "exit"}

\* the error analyze logs at the safety limit
SafetyLimitLogged == last_error.msg = "Code style analysis failed on"

\* the document now in the file of the current path, as read_from_file reads it
Persisted == readlines(disk[Path].text)

\* the detector of the current entry reports a diagnostic for the file
StillDirty ==
    Detect(EXECUTION_LIST[execution][1], Persisted).kind = "list"

\* the correctors that fix a reported violation without making a new one of
\* their category
ConvergentFixes ==
    {"tabs_corrective_action", "missing_whitespace_corrective_action",
     "extraneous_whitespace_corrective_action"}

\* C1: the detect->correct loop of a category whose corrector is convergent
\* (tabs, missing whitespace, extraneous whitespace) is never stopped by the
\* safety limit: it reaches a clean detection first, however many violations
\* one line has.
C1_Convergence ==
    stopped = "cap" => EXECUTION_LIST[execution][2] \notin ConvergentFixes

\* C2: within one call of analyze the detector and the corrector each run at
\* most 10 times, whatever they return, and main() comes to an end.
C2_Termination ==
    /\ [](det_runs <= SAFETY_LIMIT /\ fix_runs <= SAFETY_LIMIT)
    /\ <>Terminated

\* C2 witness: a category whose callbacks ran as often as the limit allows and
\* whose loop was then stopped, in a run that has ended
C2_Witness ==
    /\ callbacks = "stub"
    /\ pc = "done"
    /\ stopped = "cap"
    /\ det_runs = SAFETY_LIMIT - 1
    /\ fix_runs = SAFETY_LIMIT - 1

\* the categories in the order run_pycodestyle takes them
CategoryOrder ==
    <<"trailing_whitespace_check", "tabs_check", "extraneous_whitespace_check",
      "missing_whitespace_check", "whitespace_before_parameters_check",
      "whitespace_around_operator_check", "imports_position_check",
      "multiple_imports_check", "expected_blank_lines_check",
      "trailing_whitespace_check", "missing_newline_check">>

\* C3: the categories are taken in the listed order and are not interleaved: a
\* detector or corrector runs only for the current entry, after the loops of
\* all earlier entries have stopped and before any later entry has started,
\* and the next entry starts only once the current loop stopped clean or at
\* the safety limit.
C3_Order ==
    [][/\ pc \in {"check", "fix"} =>
             /\ execution' = execution
             /\ analyzed = 1..execution
             /\ stopped = ""
             /\ EXECUTION_LIST[execution][1] = CategoryOrder[execution]
       /\ (execution' # execution /\ execution' # 0) =>
             /\ execution' = execution + 1
             /\ execution = 0 \/ stopped \in {"clean", "cap"}
             /\ Len(EXECUTION_LIST) = Len(CategoryOrder)]_vars

\* C3 witness: the corrector of the last entry is about to run after the ten
\* entries before it
C3_Witness ==
    /\ pc = "fix"
    /\ execution = Len(EXECUTION_LIST)
    /\ analyzed = 1..Len(EXECUTION_LIST)

\* C4: a loop stopped at the safety limit has logged the error, raises
\* nothing, and the next entry of the execution list starts its own loop on
\* the same file; a run whose last error is the safety limit has analysed
\* every entry for its last file.
C4_CapProceeds ==
    [][/\ stopped = "cap" =>
             /\ pc = "run"
             /\ exc = ""
             /\ SafetyLimitLogged
             /\ last_error.fix = EXECUTION_LIST[execution][2]
             /\ IF execution < Len(EXECUTION_LIST)
                THEN /\ execution' = execution + 1
                     /\ pc' = "while"
                     /\ status'
                     /\ safety_step_count' = 0
                     /\ path_index' = path_index
                ELSE pc' = "ask"
       /\ (pc' = "done" /\ last_error'.msg = "Code style analysis failed on") =>
             analyzed' = 1..Len(EXECUTION_LIST)]_vars

\* C4 witness: the tabs category was given up with a tab left in the file,
\* and the detector of the next category has run
C4_Witness ==
    /\ callbacks = "EXECUTION_LIST"
    /\ SafetyLimitLogged
    /\ last_error.fix = "tabs_corrective_action"
    /\ execution = 3
    /\ det_runs >= 1
    /\ tabs_check(Persisted).kind = "list"

\* C5: the safety-limit error is logged only while the detector of the
\* category still reports a diagnostic for the file as persisted.
C5_ErrorOnlyWhenDirty ==
    stopped = "cap" => StillDirty

\* C5 reading of the log: the safety-limit error for a file the last
\* correction left clean
C5_ErrorForCleanFile == stopped = "cap" /\ ~StillDirty

\* C6: when the corrector is invoked, file_content is the document read from
\* the file in this iteration and still equal to the file, no write has
\* happened since that read, and violations is what the detector of the same
\* entry computed from that document.
C6_NoStaleDiagnostics ==
    /\ pc \in {"check", "parse", "fix"} =>
          /\ file_content = Persisted
          /\ writes = <<>>
    /\ (pc \in {"parse", "fix"} /\ callbacks = "EXECUTION_LIST") =>
          violations = Detect(EXECUTION_LIST[execution][1], file_content)

\* C6 witness: a second correction of one category, on the document the first
\* correction wrote
C6_Witness ==
    /\ callbacks = "EXECUTION_LIST"
    /\ pc = "fix"
    /\ fix_runs >= 1
    /\ file_content = Persisted
    /\ violations.items # <<>>

\* C7 as stated: a run that ended with a SyntaxError of a detector has still
\* analysed multiple-imports, the second trailing-whitespace pass and the
\* final newline for that file.
C7_LaterCategoriesRun ==
    (pc = "done" /\ stopped = "SyntaxError") => {8, 10, 11} \subseteq analyzed

\* C7: a SyntaxError of the import-placement or blank-lines detector is
\* logged by run_pycodestyle and raised on as CodeStyleAnalysisError to main:
\* no corrector runs, nothing is written, and no further entry of the
\* execution list is analysed.
C7_ParseErrorEndsRun ==
    stopped = "SyntaxError" =>
        /\ pc \in {"except", "main_except", "done"}
        /\ EXECUTION_LIST[execution][1] \in
              {"imports_position_check", "expected_blank_lines_check"}
        /\ analyzed = 1..execution
        /\ writes = <<>>
        /\ pc = "except" => exc = "SyntaxError"
        /\ pc = "main_except" =>
              exc = "CodeStyleAnalysisError" /\ last_error.msg = "SyntaxError"
        /\ pc = "done" => last_error.msg = "Code style analysis failed."

\* C7 witness: the run has ended at import placement with entries of the
\* execution list and a file of the folder left
C7_Witness ==
    /\ stopped = "SyntaxError"
    /\ pc = "done"
    /\ execution = 7
    /\ path_index < Len(folder_contents)

\* C8: from the moment a detector returns something that is neither None nor
\* a list, no corrector is invoked, the file is not written, no further entry
\* is started, and the process exits.
C8_MalformedResult ==
    [][(violations'.kind = "other" \/ violations.kind = "other") =>
          /\ fix_runs' = fix_runs
          /\ disk' = disk
          /\ writes' = writes
          /\ execution' = execution
          /\ analyzed' = analyzed
          /\ pc' \in {"parse", "exit"}]_vars

\* C8 witness: the process has exited on a malformed result with entries of
\* the execution list left
C8_Witness ==
    /\ pc = "exit"
    /\ violations.kind = "other"
    /\ execution < Len(EXECUTION_LIST)
    /\ writes = <<>>

\* C9 as stated: a run that ended with an I/O error has still given every
\* file of the folder to run_pycodestyle.
C9_RemainingFilesProcessed ==
    (pc = "done" /\ stopped = "OSError") => path_index = Len(folder_contents)

\* C9: an I/O error in read_from_file or write_to_file is logged, raised on
\* as CodeStyleAnalysisError and logged by main, which then returns: no
\* further entry and no further file is processed.
C9_IOErrorEndsRun ==
    stopped = "OSError" =>
        /\ pc \in {"except", "main_except", "done"}
        /\ analyzed = 1..execution
        /\ pc = "except" => exc = "OSError"
        /\ pc = "main_except" =>
              exc = "CodeStyleAnalysisError" /\ last_error.msg = "OSError"
        /\ pc = "done" => last_error.msg = "Code style analysis failed."

\* C9 witness: main has returned after an I/O error in the first of two files
C9_Witness ==
    /\ stopped = "OSError"
    /\ pc = "done"
    /\ path_index = 1
    /\ Len(folder_contents) = 2

\* the correctors that call write_to_file once, after their loop
WriteOnce ==
    {"trailing_whitespace_corrective_action",
     "imports_position_corrective_action",
     "multiple_imports_corrective_action", "blank_lines_corrective_action",
     "missing_newline_corrective_action"}

\* the lines that have a diagnostic
LinesOf(items) == {items[i].line_number : i \in 1..Len(items)}

\* C10 as stated: the file is written at most once between two reads.
C10_OneWrite == Len(writes) <= 1

\* C10: every write replaces the whole file; a corrector that returned has
\* written once (trailing whitespace, import placement, multiple imports,
\* blank lines, final newline), once per diagnostic (whitespace before
\* parameters) or once per line with a diagnostic (the others), and the file
\* holds its last write.
C10_Writes ==
    /\ (callbacks = "EXECUTION_LIST" /\ pc = "while" /\ status
          /\ safety_step_count >= 1) =>
          LET fix == EXECUTION_LIST[execution][2]
              items == violations.items
          IN Len(writes) =
                IF fix \in WriteOnce THEN 1
                ELSE IF fix = "whitespace_before_parameters_corrective_action"
                THEN Len(items)
                ELSE Cardinality(LinesOf(items))
    /\ writes # <<>> => disk[Path].text = writes[Len(writes)]

\* C10 witness: one call of the tabs corrector has written the file twice,
\* the first time with a tab still in it
C10_Witness ==
    /\ callbacks = "EXECUTION_LIST"
    /\ pc = "while"
    /\ EXECUTION_LIST[execution][2] = "tabs_corrective_action"
    /\ Len(writes) = 2
    /\ tabs_check(readlines(writes[1])).kind = "list"
    /\ writes[1] # writes[2]

\* ------------------------------------------------------------------------
\* Properties of the detectors and correctors
\* ------------------------------------------------------------------------

\* the file main() was given as a.py; the program works on its copy
Original == disk[Name("a", FALSE, "py")].text

\* run_pycodestyle is working on the copy of a.py
OnCopyOfA ==
    /\ path_index >= 1
    /\ Path = CopyPath(Name("a", FALSE, "py"))
    /\ execution >= 1

\* the entry of the execution list that is being analysed
Category == EXECUTION_LIST[execution][1]

\* C11: for a line "<pre> ,<post>" extraneous_whitespace_check reports the
\* space before the comma, its corrector deletes exactly that space,
\* missing_whitespace_check then reports the comma, its corrector inserts one
\* space after it, and the next detection of either detector is clean.
C11_ScenarioA ==
    \A part \in SpaceCommaParts :
        (callbacks = "EXECUTION_LIST" /\ OnCopyOfA
           /\ Original = SpaceComma(part)) =>
            LET pre == part[1]
                post == part[2]
                first == pc = "parse" /\ det_runs = 1
                fixed == pc = "while" /\ fix_runs = 1
                second == pc = "parse" /\ det_runs = 2
            IN /\ (Category = "extraneous_whitespace_check" /\ first) =>
                     violations = ListResult(<<Diag(1, E203, Len(pre))>>)
               /\ (Category = "extraneous_whitespace_check" /\ fixed) =>
                     disk[Path].text = pre \o <<",">> \o post
               /\ (Category = "extraneous_whitespace_check" /\ second) =>
                     violations = NoneResult
               /\ (Category = "missing_whitespace_check" /\ first) =>
                     violations = ListResult(<<Diag(1, E231, Len(pre))>>)
               /\ (Category = "missing_whitespace_check" /\ fixed) =>
                     disk[Path].text = pre \o <<",", SP>> \o post
               /\ (Category = "missing_whitespace_check" /\ second) =>
                     /\ violations = NoneResult
                     /\ extraneous_whitespace_check(file_content) = NoneResult

\* C11 witness: the third pass over "x = [1, 2, 3]" is clean
C11_Witness ==
    /\ OnCopyOfA
    /\ Original = <<"x", SP, "=", SP, "[", "1", ",", SP, "2", SP, ",", "3",
                    "]", NL>>
    /\ disk[Path].text = <<"x", SP, "=", SP, "[", "1", ",", SP, "2", ",", SP,
                           "3", "]", NL>>
    /\ Category = "missing_whitespace_check"
    /\ det_runs = 2
    /\ stopped = "clean"

\* ------------------------------------------------------------------------
\* FileHandler(path).analyze(check, fix) called on its own: one entry of the
\* execution list applied to a document, as a unit test calls it
\* ------------------------------------------------------------------------

\* bounds of the document families
MaxImportLines == 3

Indent(n) == Repeat(<<SP>>, n)

\* the lines of the multiple-imports family; a line comes with whether
\* multiple_imports_check is to flag it and the lines it is to become:
\* "<indent>import <name><sep><name>..." has one part per name
ImportLineSpecs ==
    LET Plain(text) == [text |-> text, flagged |-> FALSE, parts |-> <<text>>]
        Imp(indent, names, sep) ==
            [text |-> indent \o Kw.import \o <<SP>>
                         \o Concat([i \in 1..Len(names) |->
                               IF i = 1 THEN names[i] ELSE sep \o names[i]])
                         \o <<NL>>,
             flagged |-> Len(names) > 1,
             parts |-> [i \in 1..Len(names) |->
                           indent \o Kw.import \o <<SP>> \o names[i] \o <<NL>>]]
    IN {Imp(<<>>, <<<<"o", "s">>, <<"s", "y", "s">>>>, <<",", SP>>),
        Imp(Indent(4), <<<<"a">>, <<"b">>>>, <<",">>),
        Imp(<<>>, <<<<"a">>, <<"b">>, <<"c">>>>, <<",", SP>>),
        Imp(<<>>, <<<<"o", "s">>>>, <<>>),
        Plain(Assign \o <<NL>>),
        Plain(Kw.from \o <<SP, "a", SP>> \o Kw.import
                 \o <<SP, "b", ",", SP, "c", NL>>)}

\* the documents of one to n of the blocks
DocsOf(blocks, n) == UNION {[1..k -> blocks] : k \in 1..n}

TextOf(ds) == Concat([i \in 1..Len(ds) |-> ds[i].text])

\* blocks per document of the blank-lines family
MaxDefs == 2

\* the blocks of the blank-lines family: a statement, a module-level
\* function under k blank lines, or a class under k blank lines whose method
\* is under m blank lines; a block comes with its definitions (line within
\* the block, blank lines PEP 8 asks for, blank lines found) and with the
\* block that has the asked-for blank lines.
BlockSpecs ==
    LET BlankCounts == 0..3
        BlockText(kind, k, m) ==
            CASE kind = "stmt" -> Assign \o <<NL>>
              [] kind = "def" ->
                    Repeat(<<NL>>, k) \o DefF
                       \o Indent(4) \o <<"p", "a", "s", "s", NL>>
              [] OTHER ->
                    Repeat(<<NL>>, k) \o Kw.class \o <<SP, "A", ":", NL>>
                       \o Repeat(<<NL>>, m)
                       \o Indent(4) \o Kw.def
                       \o <<SP, "m", "(", "s", "e", "l", "f", ")", ":", NL>>
                       \o Indent(8) \o <<"p", "a", "s", "s", NL>>
        Block(kind, k, m) ==
            [kind |-> kind, k |-> k,
             text |-> BlockText(kind, k, m),
             fixed |-> BlockText(kind, 2, 1),
             len |-> CASE kind = "stmt" -> 1
                       [] kind = "def" -> k + 2
                       [] OTHER -> k + m + 3,
             defs |-> CASE kind = "stmt" -> <<>>
                        [] kind = "def" ->
                              <<[at |-> k + 1, expected |-> 2, received |-> k]>>
                        [] OTHER ->
                              <<[at |-> k + 1, expected |-> 2, received |-> k],
                                [at |-> k + m + 2, expected |-> 1,
                                 received |-> m]>>]
    IN {Block("stmt", 2, 1)}
       \cup {Block("def", k, 1) : k \in BlankCounts}
       \cup {Block("class", k, m) : k \in BlankCounts, m \in 0..2}

\* scenario C: nine statements and a function on line 10 with no blank line
\* above it
ScenarioC ==
    [i \in 1..10 |->
        CHOOSE b \in BlockSpecs :
            IF i < 10 THEN b.kind = "stmt" ELSE b.kind = "def" /\ b.k = 0]

\* documents of up to two lines with every end a line of a file can have
\* (none, "\n", "\r\n", "\r"), the empty document and scenario D ("return x"
\* without a newline) among them
NewlineDocs ==
    LET Terminators == {<<>>, <<NL>>, <<CR, NL>>, <<CR>>} IN
    {a \o s \o b \o t : a \in {<<>>, Assign}, s \in Terminators,
                        b \in {<<>>, Kw.return \o <<SP, "x">>},
                        t \in Terminators}

\* blocks per document of the import-placement family
MaxBlocks == 3

\* the blocks of the import-placement family; a block comes with the lines
\* (counted within the block) of its imports outside a function or class
\* body: an import, a statement, a comment, a function with an import in its
\* body, an if with an import in its body, an if with such a function in its
\* body
PosBlocks ==
    LET ImportRe == Kw.import \o <<SP, "r", "e", NL>>
        IfX == Kw.if \o <<SP, "x", ":", NL>>
    IN {[kind |-> "import", text |-> ImportOs \o <<NL>>, len |-> 1,
         out |-> {1}],
        [kind |-> "stmt", text |-> Assign \o <<NL>>, len |-> 1, out |-> {}],
        [kind |-> "comment", text |-> <<"#", SP, "c", NL>>, len |-> 1,
         out |-> {}],
        [kind |-> "def", text |-> DefF \o Indent(4) \o ImportRe, len |-> 2,
         out |-> {}],
        [kind |-> "if", text |-> IfX \o Indent(4) \o ImportRe, len |-> 2,
         out |-> {2}],
        [kind |-> "if def", len |-> 3, out |-> {},
         text |-> IfX \o Indent(4) \o DefF \o Indent(8) \o ImportRe]}

\* an entry of the in-line categories with a document that has several
\* diagnostics on one line: "x = 1  " and a blank line of spaces, two tabs,
\* "f( a )", "f(a,a,a)", "f (x) + g  (y)", "f   (x); g ('  ')", "x  =  1"
SameLineCases ==
    {<<1, Assign \o <<SP, SP, NL, SP, SP, SP, NL>>>>,
     <<2, TabLine(2)>>,
     <<3, <<"f", "(", SP, "a", SP, ")", NL>>>>,
     <<4, CommaLine(2)>>,
     <<5, <<"f", SP, "(", "x", ")", SP, "+", SP, "g", SP, SP, "(", "y", ")",
            NL>>>>,
     <<5, <<"f", SP, SP, SP, "(", "x", ")", ";", SP, "g", SP, "(", SQ, SP, SP,
            SQ, ")", NL>>>>,
     <<6, <<"x", SP, SP, "=", SP, SP, "1", NL>>>>}

\* one-line documents with "," ";" ":" before a character, a blank, a tab,
\* ")" , the line terminator and the end of the text, and ":" inside "[ ]"
MissingDocs ==
    {DefF,
     CommaLine(1),
     <<"f", "(", "a", ",", SP, "b", ")", NL>>,
     <<"f", "(", "a", ",", TAB, "b", ")", NL>>,
     <<"f", "(", "a", ",", ")", NL>>,
     <<"x", SP, "=", SP, "a", "[", "1", ":", "2", "]", NL>>,
     <<"x", SP, "=", SP, "{", "1", ":", "2", "}", NL>>,
     Assign \o <<";", "y", NL>>,
     Assign \o <<",", NL>>,
     Assign \o <<",">>}

\* further entries with their documents.
\* tabs (2): a one-line docstring above a line with a tab; a docstring of
\* three lines with a tab inside and a line with a tab below; a comment
\* with a tab above a line with a tab.
\* trailing whitespace (1, 10): a non-blank line ending in a space and a tab,
\* and in a tab; a whitespace-only line with a tab; a last line without
\* terminator ending in spaces.
\* extraneous whitespace (3): two lines with blanks inside parentheses.
\* whitespace before parameters (5): two calls on one line, the second with
\* one blank.
\* whitespace around operators (6): a last line ending with "="; the empty
\* text; "x <op> 1" with one to three blanks on each side of an operator of
\* one or two characters
MoreCases ==
    LET Q3 == <<DQ, DQ, DQ>> IN
    {<<2, Q3 \o <<"d">> \o Q3 \o <<NL>> \o TabLine(1)>>,
     <<2, Q3 \o <<NL, TAB, "d", NL>> \o Q3 \o <<NL>> \o TabLine(1)>>,
     <<2, <<"#", TAB, "c", NL>> \o TabLine(2)>>,
     <<1, Assign \o <<SP, TAB, NL>>>>,
     <<1, Assign \o <<TAB, NL>>>>,
     <<1, Assign \o <<NL, SP, TAB, NL>>>>,
     <<10, Assign \o <<NL>> \o Assign \o <<SP, SP>>>>,
     <<3, <<"f", "(", SP, "a", SP, ")", NL, "g", "(", SP, "b", ")", NL>>>>,
     <<5, <<"f", SP, SP, "(", "x", ")", ";", SP, "g", SP, "(", "y", ")", NL>>>>,
     <<6, <<"x", SP, "=">>>>,
     <<6, <<>>>>}
    \cup {<<6, <<"x">> \o Repeat(<<SP>>, a) \o op \o Repeat(<<SP>>, b)
                \o <<"1", NL>>>> :
             op \in {<<"=">>, <<"=", "=">>, <<"*", "*">>, <<"<", "<">>},
             a \in 1..3, b \in 1..3}

\* the entry of the execution list and the text of each call
Cases ==
    {<<7, TextOf(ds)>> : ds \in DocsOf(PosBlocks, MaxBlocks)}
    \cup {<<8, TextOf(ds)>> : ds \in DocsOf(ImportLineSpecs, MaxImportLines)}
    \cup {<<9, TextOf(ds)>> : ds \in DocsOf(BlockSpecs, MaxDefs) \cup {ScenarioC}}
    \cup {<<11, text>> : text \in NewlineDocs}
    \cup {<<4, text>> : text \in MissingDocs}
    \cup SameLineCases
    \cup MoreCases

\* analyze(EXECUTION_LIST[e][0], EXECUTION_LIST[e][1]) is entered for the copy
\* of a.py
InitAnalyze ==
    /\ callbacks = "EXECUTION_LIST"
    /\ \E case \in Cases :
          /\ execution = case[1]
          /\ disk = [n \in FileNames |->
                        IF n.stem = "a" /\ n.ext = "py" THEN File(case[2])
                        ELSE NoFile]
    /\ folder_contents = <<CopyPath(Name("a", FALSE, "py"))>>
    /\ path_index = 1
    /\ analyzed = {execution}
    /\ pc = "while"
    /\ status = TRUE
    /\ safety_step_count = 0
    /\ file_content = <<>>
    /\ violations = NoneResult
    /\ exc = ""
    /\ last_error = NoError
    /\ opened = {}
    /\ det_runs = 0
    /\ fix_runs = 0
    /\ writes = <<>>
    /\ stopped = ""

NextAnalyze ==
    \/ analyze
    \/ read_from_file
    \/ callback_check
    \/ parse_pycodestyle_output
    \/ callback_fix

SpecAnalyze == InitAnalyze /\ [][NextAnalyze]_vars

\* the line numbers of a list of diagnostics
\* the blocks a text is made of: the block whose text the text starts with,
\* followed by the blocks of the rest
RECURSIVE BlocksOf(_, _)
BlocksOf(text, blocks) ==
    IF text = <<>> THEN <<>>
    ELSE LET b == CHOOSE c \in blocks :
                     /\ Len(c.text) <= Len(text)
                     /\ SubSeq(text, 1, Len(c.text)) = c.text
         IN <<b>> \o BlocksOf(SubSeq(text, Len(b.text) + 1, Len(text)), blocks)

LineNumbers(items) == [k \in 1..Len(items) |-> items[k].line_number]

\* the indexes of s, in order, whose element satisfies Test
Where(s, Test(_)) ==
    SelectSeq([i \in 1..Len(s) |-> i], LAMBDA i : Test(s[i]))

IsFlagged(l) == l.flagged

StartOf(ds, i) ==
    LET RECURSIVE Sum(_)
        Sum(j) == IF j = 0 THEN 0 ELSE Sum(j - 1) + ds[j].len
    IN 1 + Sum(i - 1)

\* the definitions of a document that do not have their blank lines, in the
\* order of the document
Misplaced(ds) ==
    Concat([i \in 1..Len(ds) |->
        SelectSeq([n \in 1..Len(ds[i].defs) |->
                      [Diag(StartOf(ds, i) + ds[i].defs[n].at - 1, E302, 0)
                          EXCEPT !.expected = ds[i].defs[n].expected,
                                 !.received = ds[i].defs[n].received]],
                  LAMBDA v : v.expected # v.received)])

\* the sum of expected - received over the first n diagnostics
RECURSIVE Shift(_, _)
Shift(items, n) ==
    IF n = 0 THEN 0
    ELSE Shift(items, n - 1) + items[n].expected - items[n].received

NonBlank(lines) == SelectSeq(lines, LAMBDA l : strip(l) # <<>>)

\* C13: for every document of blocks (a statement, a module-level function
\* or a class with one method, under 0 to 3 blank lines), the blank-lines
\* detector reports exactly the definitions that do not have 2 (function,
\* class) or 1 (method) blank lines above them, in line order, with the
\* expected and the found count; one corrector pass writes once, every
\* definition then has its expected blank lines and every other line is
\* unchanged and in place, the line count grows by the sum of expected -
\* received, a flagged definition is on its line plus the shift of the
\* diagnostics up to it, and the next detection is clean.  A function on
\* line 10 under no blank line ends on line 12.
C13_BlankLineOffsets ==
    Category = "expected_blank_lines_check" =>
            LET ds == BlocksOf(Original, BlockSpecs)
                before == readlines(Original)
                after == readlines(disk[Path].text)
                items == violations.items
            IN /\ TextOf(ds) = Original
               /\ (pc = "parse" /\ det_runs = 1) =>
                     violations = ListOrNone(Misplaced(ds))
               /\ (pc = "while" /\ fix_runs = 1 /\ status) =>
                     /\ Len(writes) = 1
                     /\ disk[Path].text = writes[1]
                     /\ writes[1] = Concat([i \in 1..Len(ds) |-> ds[i].fixed])
                     /\ Len(after) = Len(before) + Shift(items, Len(items))
                     /\ NonBlank(after) = NonBlank(before)
                     /\ \A n \in 1..Len(items) :
                           LET line == items[n].line_number + Shift(items, n)
                           IN /\ after[line] = before[items[n].line_number]
                              /\ calculate_blank_lines(after, line,
                                     items[n].expected) = <<>>
                     /\ ds = ScenarioC =>
                           /\ items = Misplaced(ds) /\ Len(items) = 1
                           /\ items[1].line_number = 10
                           /\ after[12] = DefF
               /\ (pc = "parse" /\ det_runs = 2) => violations = NoneResult
               /\ det_runs <= 2

\* C13 witness: one pass has inserted blank lines above a class, deleted one
\* above its method and inserted two above a later function
C13_Witness ==
    /\ Category = "expected_blank_lines_check"
    /\ pc = "while" /\ status /\ fix_runs = 1
    /\ Len(violations.items) = 3
    /\ violations.items[1].received = 1
    /\ violations.items[2].received = 2
    /\ violations.items[3].received = 0
    /\ Len(readlines(disk[Path].text)) = Len(readlines(Original)) + 2

\* C14 as stated: for every document, missing_newline_check returns, with
\* exactly one diagnostic if and only if the text does not end with a line
\* terminator; after the corrector the file holds the original text followed
\* by one newline character, and the detector then returns clean.
C14_MissingNewline ==
    Category = "missing_newline_check" =>
        /\ stopped # "IndexError"
        /\ (pc = "parse" /\ det_runs = 1) =>
              (Len(violations.items) = 1 <=>
                  ~(Original # <<>> /\ Original[Len(Original)] \in {NL, CR}))
        /\ (pc = "while" /\ fix_runs = 1 /\ status) =>
              disk[Path].text = Original \o <<NL>>
        /\ (pc = "parse" /\ det_runs = 2) => violations = NoneResult

\* C14 reading of the log: the detector has raised IndexError on the empty
\* document, which ends the analysis
C14_Witness ==
    /\ Category = "missing_newline_check"
    /\ Original = <<>>
    /\ stopped = "IndexError"
    /\ pc = "except"
    /\ det_runs = 1 /\ fix_runs = 0

\* the lines of a document's imports outside function and class bodies
OutOfBody(ds) ==
    UNION {{StartOf(ds, i) + n - 1 : n \in ds[i].out} : i \in 1..Len(ds)}

\* the first detection of the import-placement detector has returned
ImportsChecked ==
    /\ Category = "imports_position_check"
    /\ pc = "parse" /\ det_runs = 1

\* C15 as stated: imports_position_check returns no diagnostic when the
\* imports outside function and class bodies are on exactly the lines 1..n
\* (n >= 1), and one diagnostic per such import line when those lines are
\* not one contiguous run.
C15_ImportGrouping ==
    ImportsChecked =>
        LET ds == BlocksOf(Original, PosBlocks)
            out == OutOfBody(ds)
        IN  /\ (out # {} /\ out = 1..Cardinality(out)) =>
                  violations = NoneResult
            /\ (out # {} /\ out # MinOf(out)..MaxOf(out)) =>
                  /\ LinesOf(violations.items) = out
                  /\ Len(violations.items) = Cardinality(out)

\* C15 reading: "import os" on line 1 and an import in the body of a
\* function that is defined inside an if: both are reported
C15_Witness ==
    /\ ImportsChecked
    /\ LET ds == BlocksOf(Original, PosBlocks) IN
          [i \in 1..Len(ds) |-> ds[i].kind] = <<"import", "if def">>
    /\ LineNumbers(violations.items) = <<1, 4>>

\* C16 as stated: imports_position_check is clean whenever the lines of the
\* imports outside function and class bodies form one contiguous run,
\* wherever the run starts (documents whose functions are at module level).
C16_ContiguousRun ==
    ImportsChecked =>
        LET ds == BlocksOf(Original, PosBlocks)
            out == OutOfBody(ds)
        IN (/\ \A i \in 1..Len(ds) : ds[i].kind # "if def"
            /\ out # {} /\ out = MinOf(out)..MaxOf(out)) =>
               violations = NoneResult

\* C16 reading: a comment line and two imports below it; both imports are
\* reported
C16_Witness ==
    /\ ImportsChecked
    /\ LET ds == BlocksOf(Original, PosBlocks) IN
          [i \in 1..Len(ds) |-> ds[i].kind] = <<"comment", "import", "import">>
    /\ LineNumbers(violations.items) = <<2, 3>>

\* the line numbers are in non-decreasing order
Ascending(items) ==
    \A k \in 1..(Len(items) - 1) :
        items[k].line_number <= items[k + 1].line_number

\* C17 as stated: every detector of the execution list returns its
\* diagnostics in non-decreasing line order.
C17_AscendingLines ==
    (callbacks = "EXECUTION_LIST" /\ pc = "parse") =>
        Ascending(violations.items)

\* C17 reading: an import on line 1, an import inside an if on line 3 and
\* an import on line 4 are reported in the order 1, 4, 3
C17_Witness ==
    /\ ImportsChecked
    /\ LET ds == BlocksOf(Original, PosBlocks) IN
          [i \in 1..Len(ds) |-> ds[i].kind] = <<"import", "if", "import">>
    /\ LineNumbers(violations.items) = <<1, 4, 3>>

\* the correctors that edit inside a line
InLine ==
    {"trailing_whitespace_corrective_action", "tabs_corrective_action",
     "extraneous_whitespace_corrective_action",
     "missing_whitespace_corrective_action",
     "whitespace_before_parameters_corrective_action",
     "whitespace_around_operator_corrective_action"}

\* the line after the edit of one diagnostic
Applied(fix, line, v) ==
    IF fix = "trailing_whitespace_corrective_action"
    THEN trailing_loop(<<line>>, <<[v EXCEPT !.line_number = 1]>>, 1)[1]
    ELSE EditLine(fix, line, v)

\* the document in which every line with a diagnostic has had the edit of
\* its first diagnostic and no other
FirstPerLine(fix, content, items) ==
    [n \in 1..Len(content) |->
        LET on == {k \in 1..Len(items) : items[k].line_number = n} IN
        IF on = {} THEN content[n]
        ELSE Applied(fix, content[n], items[MinOf(on)])]

\* an in-line corrector has returned
InLineFixed ==
    /\ callbacks = "EXECUTION_LIST"
    /\ OnCopyOfA
    /\ pc = "while" /\ status /\ safety_step_count >= 1
    /\ EXECUTION_LIST[execution][2] \in InLine

\* C18 as stated: when an in-line corrector (trailing, tabs, extraneous,
\* missing, around-operator, before-parenthesis) has returned, every line
\* with diagnostics has had the edit of its first diagnostic only, and every
\* other line is unchanged.
C18_FirstDiagnosticPerLine ==
    InLineFixed =>
        disk[Path].text =
            Concat(FirstPerLine(EXECUTION_LIST[execution][2], file_content,
                                violations.items))

\* C18 reading: the before-parenthesis corrector has applied both
\* diagnostics of "f   (x); g ('  ')", the second at its column in the line
\* as read, and has emptied the string literal
C18_Witness ==
    /\ InLineFixed
    /\ Category = "whitespace_before_parameters_check"
    /\ Len(violations.items) = 2
    /\ violations.items[1].line_number = violations.items[2].line_number
    /\ disk[Path].text =
          <<"f", "(", "x", ")", ";", SP, "g", SP, "(", SQ, SQ, ")", NL>>

\* C19 as stated: a category abandoned at the safety limit has been detected
\* and corrected SAFETY_LIMIT (10) times.
C19_TenPasses ==
    stopped = "cap" => det_runs = SAFETY_LIMIT /\ fix_runs = SAFETY_LIMIT

\* C19: a category abandoned at the safety limit has been detected and
\* corrected SAFETY_LIMIT - 1 (9) times, every detection followed by a
\* correction; the tenth step of the loop logs the error with the step count
\* 10 and leaves the loop before reading the file, and no category is ever
\* detected or corrected more often.
C19_NinePasses ==
    /\ det_runs <= SAFETY_LIMIT - 1
    /\ fix_runs <= det_runs
    /\ stopped = "cap" =>
          /\ det_runs = SAFETY_LIMIT - 1
          /\ fix_runs = SAFETY_LIMIT - 1
          /\ safety_step_count = SAFETY_LIMIT
          /\ last_error.steps = SAFETY_LIMIT

\* C19 witness: the tabs category has been abandoned after nine corrections
\* of a line of ten tabs, with a tab left in the file
C19_Witness ==
    /\ callbacks = "EXECUTION_LIST"
    /\ stopped = "cap"
    /\ Category = "tabs_check"
    /\ fix_runs = 9
    /\ StillDirty

\* the "," ";" or ":" at index of the line is to be reported: a character
\* that is no whitespace follows it, it is no ":" with more "[" than "]"
\* before it, and no "," directly before ")"
ToReport(line, index) ==
    /\ At(line, index) \in {",", ";", ":"}
    /\ index + 1 < Len(line)
    /\ ~isspace(At(line, index + 1))
    /\ ~(/\ At(line, index) = ":"
         /\ Count(SliceTo(line, index), "[") > Count(SliceTo(line, index), "]"))
    /\ ~(At(line, index) = "," /\ At(line, index + 1) = ")")

\* C20 as stated: missing_whitespace_check reports exactly the "," ";" ":"
\* that are to be reported, one diagnostic each; a ":" or "," directly
\* before the line terminator is not among them.
C20_MissingWhitespace ==
    (/\ callbacks = "EXECUTION_LIST" /\ OnCopyOfA
     /\ Category = "missing_whitespace_check" /\ pc = "parse") =>
        LET items == violations.items
            places ==
                UNION {{<<n, i>> :
                           i \in {j \in 0..(Len(file_content[n]) - 1) :
                                     ToReport(file_content[n], j)}} :
                       n \in 1..Len(file_content)}
        IN /\ {<<items[k].line_number, items[k].column>> : k \in 1..Len(items)}
                 = places
           /\ Len(items) = Cardinality(places)

\* C20 reading: the ":" that ends "def f():" has been reported and the
\* corrector has written a blank after it
C20_Witness ==
    /\ Category = "missing_whitespace_check"
    /\ Original = DefF
    /\ pc = "while" /\ status /\ fix_runs = 1
    /\ violations = ListResult(<<Diag(1, E231, 7)>>)
    /\ disk[Path].text = Kw.def \o <<SP, "f", "(", ")", ":", SP, NL>>

\* C21 as stated: imports_position_corrective_action writes the trimmed
\* flagged import lines, one per line in ascending line order, followed by
\* the unflagged lines in their order; the number of lines is unchanged and
\* the next imports_position_check returns clean.
C21_ImportsMoved ==
    Category = "imports_position_check" =>
        /\ (pc = "while" /\ status /\ fix_runs = 1) =>
              LET items == SortByLine(violations.items)
                  flagged == LinesOf(items)
                  after == readlines(disk[Path].text)
              IN /\ after =
                       [k \in 1..Len(items) |->
                           strip(file_content[items[k].line_number]) \o <<NL>>]
                       \o SelectSeq(
                              [n \in 1..Len(file_content) |->
                                  IF n \in flagged THEN <<>>
                                  ELSE file_content[n]],
                              LAMBDA l : l # <<>>)
                 /\ Len(after) = Len(file_content)
        /\ (det_runs = 2 /\ pc \in {"parse", "except"}) =>
              violations = NoneResult /\ stopped # "SyntaxError"

\* C21 reading: the import inside an if has been moved to the top, behind
\* the import that stood below it, and the if without a body makes the next
\* detection raise SyntaxError
C21_Witness ==
    /\ Category = "imports_position_check"
    /\ LET ds == BlocksOf(Original, PosBlocks) IN
          [i \in 1..Len(ds) |-> ds[i].kind] = <<"import", "if", "import">>
    /\ det_runs = 2 /\ fix_runs = 1
    /\ stopped = "SyntaxError"
    /\ readlines(disk[Path].text)[3] = Kw.import \o <<SP, "r", "e", NL>>

\* the number of triple-quote delimiters of a line from index i on
RECURSIVE Delimiters(_, _)
Delimiters(line, i) ==
    IF i + 3 > Len(line) THEN 0
    ELSE IF Slice(line, i, i + 3) \in {<<DQ, DQ, DQ>>, <<SQ, SQ, SQ>>}
         THEN 1 + Delimiters(line, i + 3)
         ELSE Delimiters(line, i + 1)

\* line n starts inside a triple-quoted string: the delimiters of the lines
\* above it are odd in number
RECURSIVE InString(_, _)
InString(lines, n) ==
    IF n = 1 THEN FALSE
    ELSE (InString(lines, n - 1) # (Delimiters(lines[n - 1], 0) % 2 = 1))

\* C22 as stated: tabs_check reports one diagnostic per tab, with its
\* column, on every line without a delimiter that is outside a
\* triple-quoted string and is no comment line, the string region changing
\* once per delimiter; a one-line docstring leaves it unchanged.
C22_TabsOutsideStrings ==
    (callbacks = "EXECUTION_LIST" /\ OnCopyOfA /\ Category = "tabs_check"
        /\ pc = "parse") =>
        violations =
            ListOrNone(Concat([n \in 1..Len(file_content) |->
                LET line == file_content[n]
                    tabs == IndicesOf(line, {TAB}, 0)
                IN IF \/ Delimiters(line, 0) > 0
                      \/ InString(file_content, n)
                      \/ IsCommentLine(line)
                   THEN <<>>
                   ELSE [k \in 1..Len(tabs) |-> Diag(n, E101, tabs[k])]]))

\* C22 reading: the tab on the line below a one-line docstring is not
\* reported
C22_Witness ==
    /\ Category = "tabs_check"
    /\ pc = "parse" /\ det_runs = 1
    /\ Len(file_content) = 2
    /\ Delimiters(file_content[1], 0) = 2
    /\ file_content[2] = TabLine(1)
    /\ violations = NoneResult

\* the file the copy that is being analysed was made from
SourceOfPath == [Path EXCEPT !.copy = FALSE]

\* every detector of the execution list returns None on the text
AllClean(text) ==
    \A e \in 1..Len(EXECUTION_LIST) :
        Detect(EXECUTION_LIST[e][1], readlines(text)) = NoneResult

\* C23: when the detector of a category returns None,
\* parse_pycodestyle_output returns False and analyze leaves its loop: the
\* corrector is not invoked and no file is written; a copy on whose text
\* every detector of the execution list returns None is never handed to a
\* corrector and keeps the text of its source file.
C23_CleanUntouched ==
    /\ [][(pc = "parse" /\ violations.kind = "None") =>
             /\ pc' = "while" /\ ~status'
             /\ disk' = disk /\ fix_runs' = fix_runs /\ writes' = writes]_vars
    /\ [][(pc = "while" /\ ~status) =>
             /\ pc' = "run" /\ stopped' = "clean"
             /\ disk' = disk /\ fix_runs' = fix_runs /\ writes' = writes]_vars
    /\ []((/\ callbacks = "EXECUTION_LIST"
           /\ path_index >= 1
           /\ AllClean(disk[SourceOfPath].text)) =>
             /\ disk[Path].text = disk[SourceOfPath].text
             /\ pc # "fix"
             /\ (execution >= 1 => fix_runs = 0))

\* C23 witness: all eleven entries have been analysed for a copy on which
\* every detector is clean
C23_Witness ==
    /\ callbacks = "EXECUTION_LIST"
    /\ path_index >= 1
    /\ AllClean(disk[SourceOfPath].text)
    /\ analyzed = 1..Len(EXECUTION_LIST)
    /\ stopped = "clean"
    /\ pc = "run"
    /\ disk[Path].text = disk[SourceOfPath].text

\* run_pycodestyle has gone through the whole execution list for the copy
\* and nothing was logged as an error
Finished ==
    /\ callbacks = "EXECUTION_LIST"
    /\ path_index >= 1
    /\ pc = "run"
    /\ analyzed = 1..Len(EXECUTION_LIST)
    /\ last_error = Error("", "", 0)
    /\ exc = ""

\* C24: when run_pycodestyle has finished a file with no category at the
\* safety limit and nothing raised, every detector of the execution list
\* returns None on the final text of the copy.
C24_PipelineClean ==
    Finished => AllClean(disk[Path].text)

\* C24 witness: a finished file whose missing-whitespace pass ran its
\* corrector, and on whose final text the missing-whitespace detector
\* returns diagnostics again
C24_Witness ==
    /\ Finished
    /\ disk[Path].text # disk[SourceOfPath].text
    /\ Detect("missing_whitespace_check", readlines(disk[Path].text)).kind = "list"
    /\ Detect("trailing_whitespace_check", readlines(disk[Path].text)) = NoneResult

\* the characters of a line that are not whitespace, in order
NonWhite(line) == SelectSeq(line, LAMBDA c : ~isspace(c))

\* C25: while analyze works through one of the whitespace categories
\* (trailing whitespace, tabs, extraneous whitespace, missing whitespace,
\* whitespace before parameters, whitespace around operators), after any
\* number of detect and correct passes, the copy has as many lines as the
\* original and every line has the original's non-whitespace characters in
\* the original's order, also when a diagnostic was applied at a column that
\* an earlier correction of the same call had made stale.
C25_WhitespaceOnly ==
    (/\ OnCopyOfA
     /\ execution \in {1, 2, 3, 4, 5, 6, 10}) =>
        LET before == readlines(Original)
            after == readlines(disk[Path].text)
        IN /\ Len(after) = Len(before)
           /\ \A i \in 1..Len(before) :
                 NonWhite(after[i]) = NonWhite(before[i])

\* C25 witness: the whitespace-before-parameters corrector has returned from
\* a call with two diagnostics on one line, the second applied at a column
\* computed before the first correction shortened the line
C25_Witness ==
    /\ OnCopyOfA
    /\ Category = "whitespace_before_parameters_check"
    /\ pc = "while" /\ status /\ fix_runs = 1
    /\ Len(violations.items) = 2
    /\ violations.items[1].line_number = violations.items[2].line_number
    /\ disk[Path].text # Original
    /\ Len(disk[Path].text) < Len(Original) - 1

\* the text is one line "x", blanks, an operator of one or two characters,
\* blanks, "1"
IsOperatorLine(text) ==
    LET t == NonWhite(text) IN
    /\ Len(readlines(text)) = 1
    /\ Len(t) \in {3, 4}
    /\ t[1] = "x" /\ t[Len(t)] = "1"
    /\ \A i \in 2..(Len(t) - 1) : t[i] \in OPERATORS
    /\ text[1] = "x" /\ text[Len(text) - 1] = "1"

\* the blanks between "x" and the operator, and between the operator and "1"
SpacesBeforeOperator(text) == RunEnd(text, Whitespace, 1) - 1

SpacesAfterOperator(text) ==
    LET s == SubSeq(text, 1, Len(text) - 2) IN Len(s) - Len(rstrip(s))

\* C26: when whitespace_around_operator_corrective_action has corrected the
\* diagnostic of a line "x <op> 1" with several blanks on one side of the
\* operator, exactly one blank remains on that side, for operators of one and
\* of two characters.
C26_OneSpaceRemains ==
    (/\ OnCopyOfA
     /\ Category = "whitespace_around_operator_check"
     /\ pc = "while" /\ status /\ fix_runs = 1
     /\ IsOperatorLine(Original)) =>
        IF violations.items[1].violation_type = E221
        THEN SpacesBeforeOperator(disk[Path].text) = 1
        ELSE SpacesAfterOperator(disk[Path].text) = 1

\* C26 witness: the corrector has returned from correcting several blanks
\* after a two-character operator
C26_Witness ==
    /\ OnCopyOfA
    /\ Category = "whitespace_around_operator_check"
    /\ pc = "while" /\ status /\ fix_runs = 1
    /\ IsOperatorLine(Original)
    /\ Len(NonWhite(Original)) = 4
    /\ violations.items[1].violation_type = E222
    /\ SpacesAfterOperator(Original) > 1
    /\ SpacesAfterOperator(disk[Path].text) = 0

\* C27: every call of a detector of the execution list returns None or a
\* non-empty list of diagnostics and does not raise, whatever the document,
\* the empty document and a document ending in an operator character
\* included.
C27_DetectorsTotal ==
    [][(OnCopyOfA /\ pc = "check") =>
          /\ pc' = "parse"
          /\ violations'.kind \in {"None", "list"}
          /\ (violations'.kind = "list" => violations'.items # <<>>)]_vars

\* C27 witness: whitespace_around_operator_check has raised IndexError on a
\* document whose last line has no terminator and ends with "="
C27_Witness ==
    /\ OnCopyOfA
    /\ Category = "whitespace_around_operator_check"
    /\ Original = <<"x", SP, "=">>
    /\ det_runs = 1
    /\ pc = "except"
    /\ exc = "IndexError"

\* C28: when trailing_whitespace_corrective_action has been applied to the
\* diagnostics of trailing_whitespace_check, trailing_whitespace_check
\* returns None on the written text, whether the trailing whitespace is made
\* of spaces or of tabs.
C28_OnePass ==
    (/\ OnCopyOfA
     /\ Category = "trailing_whitespace_check"
     /\ pc = "while" /\ status /\ fix_runs = 1) =>
        trailing_whitespace_check(readlines(disk[Path].text)) = NoneResult

\* C28 witness: the corrector has returned from a call for a non-blank line
\* that ends with a space and a tab, and the tab is still there
C28_Witness ==
    /\ OnCopyOfA
    /\ Category = "trailing_whitespace_check"
    /\ pc = "while" /\ status /\ fix_runs = 1
    /\ Original = Assign \o <<SP, TAB, NL>>
    /\ disk[Path].text = Assign \o <<TAB, NL>>
    /\ trailing_whitespace_check(readlines(disk[Path].text)).kind = "list"

\* the files of the folder that are not copies
Originals == {n \in FileNames : ~n.copy}

\* C29: no step of main() changes a file that is not a copy: entering the
\* folder writes, for each ".py" file without "-Copy" in its name, the file
\* "<name>-Copy.py" with the same text; folder_contents holds exactly these
\* copy paths; every later change of the folder is a write to the copy that
\* is being analysed, and file_content is read from that copy.
C29_OriginalsUntouched ==
    /\ [][\A n \in Originals : disk'[n] = disk[n]]_vars
    /\ [][pc = "main" =>
             \A s \in Sources(disk) :
                 disk'[CopyPath(s)] = File(disk[s].text)]_vars
    /\ [](pc # "main" =>
             /\ {folder_contents[i] : i \in DOMAIN folder_contents}
                   = {CopyPath(s) : s \in Sources(disk)}
             /\ \A i \in DOMAIN folder_contents :
                   /\ folder_contents[i] \notin Originals
                   /\ disk[folder_contents[i]].exists)
    /\ [][pc # "main" =>
             \A n \in FileNames :
                 disk'[n] # disk[n] => (path_index >= 1 /\ n = Path)]_vars
    /\ [][(pc = "read" /\ pc' = "check") =>
             file_content' = readlines(disk[Path].text)]_vars

\* C29 witness: a corrector has written to the copy of a file and the file
\* itself still has the text it had
C29_Witness ==
    /\ path_index >= 1
    /\ Path \notin Originals
    /\ fix_runs >= 1
    /\ pc = "while"
    /\ disk[SourceOfPath].exists
    /\ disk[Path].text # disk[SourceOfPath].text

====
